---- MODULE Spec2Model ----
(***************************************************************************)
(* Model of the site-analysis pipeline of src/app/api/analyze/route.ts:    *)
(* the streamed POST handler, the crawler, the manifest analyser, the      *)
(* blocker checks, the enrichment merge and the scorer.                    *)
(*                                                                         *)
(* Numbers: calculateScores works on IEEE doubles.  The model computes the *)
(* same quantities as exact fractions (numerator over a common             *)
(* denominator).  For pillars holding at most 7 blockers no exact value of *)
(* 100 - penalty lies on a half, and for the total every half is exactly   *)
(* representable, so within MaxBlockers the exact result and the double    *)
(* result coincide.                                                        *)
(***************************************************************************)
EXTENDS Integers, Sequences, FiniteSets, TLC

VARIABLES
    \* --- one analysis run (POST and the functions it awaits) ---
    url,          \* the request's url: "ok", or "malformed" (new URL throws)
    pc,           \* where the run's async closure is suspended
    events,       \* what send() has enqueued on the stream, in order
    closed,       \* close() has been called on the stream controller
    fetchLog,     \* every URL handed to fetch(), in order (origin-relative)
    outcomes,     \* whether each of those requests succeeded, in the same order
                  \* (with the error of the homepage fetch, the only one the code keeps,
                  \* and the codes the entries of the enrichment response name)
    homepageHtml, \* crawlSite: homepageResult.html (its anchors), or Null
    results,      \* crawlSite: results
    crawled,      \* crawlSite: crawled
    llmsTxt,      \* crawlSite: llmsTxt
    allPaths,     \* crawlSite: allPaths
    pathIdx,      \* crawlSite: index in allPaths of the path being fetched
    crawlResult,  \* POST: crawlResult, or Null before crawlSite has returned
    site,         \* POST: extractions and siteData (the content signals), or Null
    understanding,\* POST: understanding, or Null
    llmsTxtAnalysis, \* POST: llmsTxtAnalysis, or Null
    rawBlockers,  \* POST: rawBlockers
    blockers,     \* POST: blockers
    result,       \* POST: the result object of the complete event, or Null
    \* --- calculateScores on its own ---
    sIn,      \* calculateScores: the blockers argument
    sMod,     \* calculateScores: the llmsTxtModifier argument
    sOut,     \* calculateScores: the returned Scores
    sPrev,    \* the call before the last one: its arguments and result
    \* --- the pipeline's pure functions, each on its own ---
    call,     \* the last call made: the function, its arguments and what it returned
    \* --- the page component (Home) and one call of its startAnalysis ---
    clientPc,       \* where startAnalysis is suspended
    wire,           \* the response bytes the transport has not delivered yet
    emitted,        \* the events the server has sent on the stream, in order
    parsed,         \* what JSON.parse has returned inside startAnalysis, in order
    currentScreen,  \* Home: currentScreen
    steps,          \* Home: steps (the status of each)
    error,          \* Home: error
    analysisResult, \* Home: analysisResult
    localResult,    \* startAnalysis: result
    timer,          \* the callback a pending setTimeout holds, or ""
    \* --- the store, for one email ---
    supabase,       \* lib/supabase: the client exists (the environment is configured)
    users,          \* the row of the email in table users, or NoRecord
    lastSave,       \* what the last saveAnalysisToDb returned, with the row before and after
    lastScan        \* what the canUserScan made after it returned

runVars == <<url, pc, events, closed, fetchLog, outcomes, homepageHtml, results,
             crawled, llmsTxt, allPaths, pathIdx, crawlResult, site, understanding,
             llmsTxtAnalysis, rawBlockers, blockers, result>>

scoreVars == <<sIn, sMod, sOut, sPrev>>

pureVars == <<call>>

clientVars == <<clientPc, wire, emitted, parsed, currentScreen, steps, error,
                analysisResult, localResult, timer>>

storeVars == <<supabase, users, lastSave, lastScan>>

vars == <<runVars, scoreVars, pureVars, clientVars, storeVars>>

Null == [null |-> TRUE]

NoCall == [called |-> FALSE]

\* Home as mounted: the landing screen, every step pending, nothing under way
IdleClient ==
    /\ clientPc = "idle"
    /\ wire = <<>>
    /\ emitted = <<>>
    /\ parsed = <<>>
    /\ currentScreen = "landing"
    /\ steps = [i \in 1..5 |-> "pending"]
    /\ error = Null
    /\ analysisResult = Null
    /\ localResult = Null
    /\ timer = ""

\* the store not configured and untouched
IdleStore ==
    /\ supabase = FALSE
    /\ users = [exists |-> FALSE]
    /\ lastSave = NoCall
    /\ lastScan = NoCall

\* ------------------------------------------------------------------------
\* Bounds
\* ------------------------------------------------------------------------
MaxBlockers == 3

\* the most anchors a homepage of the model holds
MaxLinks == 1

\* saveAnalysisToDb is not called once scan_count has reached this
MaxScans == 3

SeverityPool == {0, 1, 30, 65, 100}

\* ------------------------------------------------------------------------
\* Small helpers
\* ------------------------------------------------------------------------
Min(a, b) == IF a < b THEN a ELSE b

Max(a, b) == IF a > b THEN a ELSE b

\* Math.floor in place of Math.round
MathFloor(num, den) == num \div den

\* Math.round of the fraction num/den (den > 0): floor(x + 1/2)
MathRound(num, den) == (2 * num + den) \div (2 * den)

\* ------------------------------------------------------------------------
\* SCORING
\* ------------------------------------------------------------------------
PillarNames == {"clarity", "specificity", "proof", "audience"}

\* the weights of specificity and proof exchanged
pillarWeightsSwapped == [clarity |-> 25, specificity |-> 25, proof |-> 35, audience |-> 15]

pillarWeights == [clarity |-> 25, specificity |-> 35, proof |-> 25, audience |-> 15]

\* the values analyzeLlmsTxt can hand to calculateScores
ModifierValues == {-5, 0, 3, 4, 5}

\* the filter left out: every pillar sees every blocker
pillarBlockersUnfiltered(list, pillar) == list

\* blockers.filter(b => b.pillar === pillar)
pillarBlockers(list, pillar) == SelectSeq(list, LAMBDA b : b.pillar = pillar)

\* blockerList.reduce((sum, b) => sum + b.severity, 0)
RECURSIVE totalSeverity(_)
totalSeverity(blockerList) ==
    IF Len(blockerList) = 0 THEN 0
    ELSE totalSeverity(SubSeq(blockerList, 1, Len(blockerList) - 1))
         + blockerList[Len(blockerList)].severity

\* the multiplier written 1 - (n - 1) * 0.2
penaltyNumSignSlip(blockerList) ==
    LET n == Len(blockerList)
    IN  Min(totalSeverity(blockerList) * (5 - (n - 1)), 100 * 5 * n)

\* penalty = min(avgSeverity * (1 + (n - 1) * 0.2), 100), as a numerator over 5 * n
penaltyNum(blockerList) ==
    LET n == Len(blockerList)
    IN  Min(totalSeverity(blockerList) * (5 + (n - 1)), 100 * 5 * n)

\* one iteration of the pillarScores loop
pillarScore(blockerList) ==
    IF Len(blockerList) = 0 THEN 100
    ELSE LET den == 5 * Len(blockerList)
         IN  Max(0, MathRound(100 * den - penaltyNum(blockerList), den))

\* totalScore after the weighted loop, in hundredths
weightedSum(ps) ==
    ps["clarity"] * pillarWeights["clarity"]
    + ps["specificity"] * pillarWeights["specificity"]
    + ps["proof"] * pillarWeights["proof"]
    + ps["audience"] * pillarWeights["audience"]

\* the modifier applied without Math.min(100, ...)
clampTotalNoUpper(hundredths, llmsTxtModifier) ==
    Max(0, hundredths + 100 * llmsTxtModifier)

\* Math.max(0, Math.min(100, totalScore + llmsTxtModifier)), in hundredths
clampTotal(hundredths, llmsTxtModifier) ==
    Max(0, Min(100 * 100, hundredths + 100 * llmsTxtModifier))

calculateScores(list, llmsTxtModifier) ==
    LET ps == [p \in PillarNames |-> pillarScore(pillarBlockers(list, p))]
    IN  [total   |-> MathRound(clampTotal(weightedSum(ps), llmsTxtModifier), 100),
         pillars |-> ps]

\* ------------------------------------------------------------------------
\* CRAWLER
\* ------------------------------------------------------------------------
\* A path is kept with the lexical features the crawler's patterns look at:
\* text, the page-type keywords it contains, its asset extension (or ""), the
\* excluded leading token it starts with (or ""), whether it is a
\* tag/category/author listing, and whether it holds a "?" or a "#".
Path(text, kw) ==
    [text |-> text, kw |-> kw, ext |-> "", prefix |-> "", listing |-> FALSE,
     query |-> FALSE, hash |-> FALSE]

priorityPaths ==
    << Path("/", {}), Path("/about", {"about"}), Path("/about-us", {"about"}),
       Path("/pricing", {"pricing"}), Path("/features", {"feature"}),
       Path("/product", {"product"}), Path("/solutions", {}), Path("/faq", {"faq"}) >>

MaxPages == 8

SkipExtensions == {"png", "jpg", "jpeg", "gif", "svg", "css", "js", "pdf", "zip"}

SkipPrefixes == {"wp-", "admin", "login", "signup", "cart", "checkout", "account"}

shouldSkipPath(path) ==
    \/ path.ext \in SkipExtensions
    \/ path.prefix \in SkipPrefixes
    \/ path.listing
    \/ path.query
    \/ path.hash

detectPageType(path) ==
    IF path.text = "/" \/ path.text = "" THEN "homepage"
    ELSE IF "pricing" \in path.kw THEN "pricing"
    ELSE IF "about" \in path.kw THEN "about"
    ELSE IF "feature" \in path.kw THEN "features"
    ELSE IF "product" \in path.kw THEN "product"
    ELSE IF "faq" \in path.kw THEN "faq"
    ELSE "other"

\* An anchor's href as new URL(href, origin) sees it: unparsable, or an origin
\* ("self" is the crawled origin), a pathname, a search part and a hash part.
Href(origin, pathname, search, hash) ==
    [valid |-> TRUE, origin |-> origin, pathname |-> pathname, search |-> search,
     hash |-> hash]

InvalidHref == [valid |-> FALSE]

\* the anchors a homepage of the model can hold
HrefPool ==
    { Href("self", Path("/blog", {}), "", ""),
      Href("self", Path("/blog", {}), "?page=2", ""),
      Href("self", Path("/about", {"about"}), "", "#team"),
      Href("self", [Path("/login", {}) EXCEPT !.prefix = "login"], "", ""),
      Href("self", Path("/llms.txt", {}), "", ""),
      Href("other", Path("/partner", {}), "", ""),
      InvalidHref }

\* the function of an ordered Set: the elements of seq in first-occurrence order
RECURSIVE Dedupe(_)
Dedupe(seq) ==
    IF Len(seq) <= 1 THEN seq
    ELSE LET half  == Len(seq) \div 2
             left  == Dedupe(SubSeq(seq, 1, half))
             right == Dedupe(SubSeq(seq, half + 1, Len(seq)))
             seen  == { left[i] : i \in 1..Len(left) }
         IN  left \o SelectSeq(right, LAMBDA x : x \notin seen)

\* the $('a[href]').each loop: pathnames of the same-origin anchors, in order
RECURSIVE discoveredLinks(_)
discoveredLinks(hrefs) ==
    IF Len(hrefs) = 0 THEN <<>>
    ELSE LET front == discoveredLinks(SubSeq(hrefs, 1, Len(hrefs) - 1))
             href  == hrefs[Len(hrefs)]
         IN  IF href.valid /\ href.origin = "self"
             THEN Dedupe(Append(front, href.pathname))
             ELSE front

\* const allPaths = [...new Set([...priorityPaths, ...discoveredLinks])]
computeAllPaths(hrefs) == Dedupe(priorityPaths \o discoveredLinks(hrefs))

\* pageUrl = origin + path, written relative to the origin
pageUrl(path) == path.text

HomepageUrl == ""

ManifestUrl == "/llms.txt"

\* a bug in the cap test: > where the code has >=
RECURSIVE nextFetchIndexLateCap(_, _, _, _)
nextFetchIndexLateCap(paths, i, pages, seen) ==
    IF i > Len(paths) THEN 0
    ELSE IF Len(pages) > MaxPages THEN 0
    ELSE IF pageUrl(paths[i]) \in seen THEN nextFetchIndexLateCap(paths, i + 1, pages, seen)
    ELSE IF shouldSkipPath(paths[i]) THEN nextFetchIndexLateCap(paths, i + 1, pages, seen)
    ELSE i

\* The head of the crawl loop from index i on: the index of the next path that
\* is fetched, or 0 when the loop ends (cap reached or paths exhausted).
RECURSIVE nextFetchIndex(_, _, _, _)
nextFetchIndex(paths, i, pages, seen) ==
    IF i > Len(paths) THEN 0
    ELSE IF Len(pages) >= MaxPages THEN 0
    ELSE IF pageUrl(paths[i]) \in seen THEN nextFetchIndex(paths, i + 1, pages, seen)
    ELSE IF shouldSkipPath(paths[i]) THEN nextFetchIndex(paths, i + 1, pages, seen)
    ELSE i

Page(pUrl, type) == [url |-> pUrl, type |-> type]

\* a bug that keeps a page whose fetch failed
pagesAfterFetchKeepsFailures(pages, path, r) ==
    Append(pages, Page(pageUrl(path), detectPageType(path)))

\* if (pageResult.success) results.push({url, type, html})
pagesAfterFetch(pages, path, r) ==
    IF r.success THEN Append(pages, Page(pageUrl(path), detectPageType(path)))
    ELSE pages

\* if (llmsResult.success && llmsResult.html) llmsTxt = llmsResult.html
manifestText(r) ==
    IF r.success /\ r.html # [empty |-> TRUE] THEN r.html ELSE Null

\* what fetchPage resolves to
FetchFailures == { [success |-> FALSE, error |-> e] : e \in {"HTTP 500", "aborted"} }

\* ------------------------------------------------------------------------
\* EXTRACTOR and AGGREGATOR
\* ------------------------------------------------------------------------
\* The extractions and the combined siteData are kept as the signals the rule
\* checks read off them: counts of the de-duplicated statement lists, the
\* schema flags of extractSchema, and the outcome of each check's patterns on
\* the site's text.  The strength checks match their own patterns on their
\* own selection of the text, so their outcomes are signals of their own
\* (quantifiedOutcomes .. presentAttributes).
BareSite ==
    [title |-> <<>>, vagueHero |-> TRUE, nDefinitions |-> 0, nAudience |-> 0,
     nProofPoints |-> 0, nFAQs |-> 0,
     problemFraming |-> FALSE, solutionOnly |-> TRUE, questions |-> FALSE,
     realExamples |-> FALSE, outcomes |-> FALSE, proprietaryTerms |-> 0,
     caseStudies |-> FALSE, testimonials |-> FALSE, platforms |-> 0, asSeenOn |-> FALSE,
     sizeWord |-> FALSE,
     schemaTypes |-> 0, hasOrganization |-> FALSE, hasReview |-> FALSE,
     hasFAQ |-> FALSE, hasProduct |-> FALSE,
     lowFactDensity |-> TRUE, vagueComparatives |-> 1,
     pricingText |-> FALSE, missingAttributes |-> 4, freshness |-> FALSE,
     quantifiedOutcomes |-> FALSE, mentionedPlatforms |-> 0, customerStories |-> FALSE,
     quotedTestimonials |-> FALSE, problemFirst |-> FALSE, highFactDensity |-> FALSE,
     presentAttributes |-> 0]

MixedSite ==
    [title |-> <<"acme", "crm">>, vagueHero |-> FALSE, nDefinitions |-> 2, nAudience |-> 1,
     nProofPoints |-> 2, nFAQs |-> 3,
     problemFraming |-> FALSE, solutionOnly |-> TRUE, questions |-> TRUE,
     realExamples |-> FALSE, outcomes |-> TRUE, proprietaryTerms |-> 0,
     caseStudies |-> TRUE, testimonials |-> FALSE, platforms |-> 1, asSeenOn |-> FALSE,
     sizeWord |-> TRUE,
     schemaTypes |-> 1, hasOrganization |-> FALSE, hasReview |-> FALSE,
     hasFAQ |-> FALSE, hasProduct |-> FALSE,
     lowFactDensity |-> FALSE, vagueComparatives |-> 0,
     pricingText |-> TRUE, missingAttributes |-> 3, freshness |-> FALSE,
     quantifiedOutcomes |-> TRUE, mentionedPlatforms |-> 1, customerStories |-> TRUE,
     quotedTestimonials |-> FALSE, problemFirst |-> FALSE, highFactDensity |-> FALSE,
     presentAttributes |-> 1]

RichSite ==
    [title |-> <<"acme", "crm">>, vagueHero |-> FALSE, nDefinitions |-> 3, nAudience |-> 2,
     nProofPoints |-> 2, nFAQs |-> 4,
     problemFraming |-> TRUE, solutionOnly |-> TRUE, questions |-> TRUE,
     realExamples |-> TRUE, outcomes |-> TRUE, proprietaryTerms |-> 0,
     caseStudies |-> TRUE, testimonials |-> TRUE, platforms |-> 2, asSeenOn |-> TRUE,
     sizeWord |-> TRUE,
     schemaTypes |-> 4, hasOrganization |-> TRUE, hasReview |-> TRUE,
     hasFAQ |-> TRUE, hasProduct |-> TRUE,
     lowFactDensity |-> FALSE, vagueComparatives |-> 0,
     pricingText |-> TRUE, missingAttributes |-> 1, freshness |-> TRUE,
     quantifiedOutcomes |-> TRUE, mentionedPlatforms |-> 2, customerStories |-> TRUE,
     quotedTestimonials |-> TRUE, problemFirst |-> TRUE, highFactDensity |-> TRUE,
     presentAttributes |-> 3]

\* MixedSite with its results worded "3x faster" and its case study headed
\* "customer story": the outcome and case-study patterns of runStrengthChecks
\* match, those of checkSpecificity and checkProofPoints do not
GrowthSite == [MixedSite EXCEPT !.outcomes = FALSE, !.caseStudies = FALSE]

SiteProfiles == {BareSite, MixedSite, RichSite, GrowthSite}

\* A structured-data type string, by the lower-case keywords it contains.
SchemaType(text, words) == [text |-> text, words |-> words]

SchemaTypePool ==
    { SchemaType("Organization", {"organization"}),
      SchemaType("LocalBusiness", {"localbusiness"}),
      SchemaType("Product", {"product"}),
      SchemaType("SoftwareApplication", {"softwareapplication"}),
      SchemaType("Review", {"review"}),
      SchemaType("AggregateRating", {"aggregaterating", "rating"}),
      SchemaType("Rating", {"rating"}),
      SchemaType("FAQPage", {"faqpage", "faq"}),
      SchemaType("Question", {"question"}),
      SchemaType("HowTo", {"howto"}),
      SchemaType("WebSite", {}) }

\* typeLower.includes(a) || typeLower.includes(b) ...
includesAny(type, keywords) == type.words \cap keywords # {}

\* the flags one type sets in the scan of a block's top-level entries
topLevelFlags(type) ==
    [hasOrganization |-> includesAny(type, {"organization", "localbusiness"}),
     hasProduct      |-> includesAny(type, {"product", "softwareapplication"}),
     hasReview       |-> includesAny(type, {"review", "aggregaterating"}),
     hasFAQ          |-> includesAny(type, {"faqpage", "question"}),
     hasHowTo        |-> includesAny(type, {"howto"})]

\* the flags one type sets in the scan of the entries of @graph
graphFlags(type) ==
    [hasOrganization |-> includesAny(type, {"organization"}),
     hasProduct      |-> includesAny(type, {"product"}),
     hasReview       |-> includesAny(type, {"review", "rating"}),
     hasFAQ          |-> includesAny(type, {"faq", "question"}),
     hasHowTo        |-> includesAny(type, {"howto"})]

SchemaFlags == {"hasOrganization", "hasProduct", "hasReview", "hasFAQ", "hasHowTo"}

\* extractSchema on a document whose JSON-LD blocks hold the type strings
\* `top` at the top level and `graph` inside @graph, in document order
extractSchema(top, graph) ==
    [types |-> Dedupe([i \in 1..Len(top) |-> top[i].text]
                      \o [i \in 1..Len(graph) |-> graph[i].text])]
    @@ [f \in SchemaFlags |->
          \/ \E i \in 1..Len(top) : topLevelFlags(top[i])[f]
          \/ \E i \in 1..Len(graph) : graphFlags(graph[i])[f]]

\* array.slice(0, n)
Take(seq, n) == SubSeq(seq, 1, Min(n, Len(seq)))

\* A text of a page, by what the extractor reads off it: its trimmed length
\* and, for each matcher, the matches its patterns find in it, in the order in
\* which they stand in the text (a match is kept as a number standing for the
\* matched string), and which of them are found by the family's second pattern.
TextWith(length, definitions, audiences, claims, proofPoints, second) ==
    [length |-> length, definitions |-> definitions, audiences |-> audiences,
     claims |-> claims, proofPoints |-> proofPoints, second |-> second]

\* a text all of whose matches are found by the first pattern of each family
Text(length, definitions, audiences, claims, proofPoints) ==
    TextWith(length, definitions, audiences, claims, proofPoints, {})

\* for (const pattern of patterns) push(...text.match(pattern)): the matches of
\* the first pattern, then those of the second
matchesOf(text, kind) ==
    SelectSeq(text[kind], LAMBDA m : m \notin text.second)
    \o SelectSeq(text[kind], LAMBDA m : m \in text.second)

EmptyText == Text(0, <<>>, <<>>, <<>>, <<>>)

\* for (const text of texts) for (const pattern of patterns) push(...matches)
RECURSIVE allMatches(_, _)
allMatches(texts, kind) ==
    IF Len(texts) = 0 THEN <<>>
    ELSE IF Len(texts) = 1 THEN matchesOf(texts[1], kind)
    ELSE LET half == Len(texts) \div 2
         IN  allMatches(SubSeq(texts, 1, half), kind)
             \o allMatches(SubSeq(texts, half + 1, Len(texts)), kind)

\* the final slice left out
findDefinitionStatementsUncapped(texts) == Dedupe(allMatches(texts, "definitions"))

findDefinitionStatements(texts) == Take(Dedupe(allMatches(texts, "definitions")), 10)

findAudienceStatements(texts) == Take(Dedupe(allMatches(texts, "audiences")), 10)

findClaims(texts) == Take(Dedupe(allMatches(texts, "claims")), 15)

findProofPoints(texts) == Take(Dedupe(allMatches(texts, "proofPoints")), 15)

\* the paragraph filter written text.length >= 30
extractPageInclusive(page) ==
    LET headings    == SelectSeq(page.headings, LAMBDA t : t.length > 2 /\ t.length < 300)
        subheadline == IF page.subheadline.length > 20 /\ page.subheadline.length < 500
                       THEN page.subheadline ELSE EmptyText
        paragraphs  == Take(SelectSeq(page.paragraphs,
                                      LAMBDA t : t.length >= 30 /\ t.length < 2000), 30)
        allText     == SelectSeq(<<page.headline, subheadline>> \o headings \o paragraphs,
                                 LAMBDA t : t.length # 0)
    IN  [headings             |-> headings,
         hero                 |-> [headline |-> page.headline, subheadline |-> subheadline],
         paragraphs           |-> paragraphs,
         definitionStatements |-> findDefinitionStatements(allText),
         audienceStatements   |-> findAudienceStatements(allText),
         claims               |-> findClaims(allText),
         proofPoints          |-> findProofPoints(allText)]

\* A page's markup after the removals: the text of its first h1, of the p that
\* follows it, of its h1/h2/h3 elements and of its p elements.
\* extractPage keeps the headings longer than 2 and shorter than 300, the
\* sub-headline longer than 20 and shorter than 500, the first 30 of the
\* paragraphs longer than 30 and shorter than 2000, and runs the matchers over
\* the non-empty texts among headline, sub-headline, headings and paragraphs.
extractPage(page) ==
    LET headings    == SelectSeq(page.headings, LAMBDA t : t.length > 2 /\ t.length < 300)
        subheadline == IF page.subheadline.length > 20 /\ page.subheadline.length < 500
                       THEN page.subheadline ELSE EmptyText
        paragraphs  == Take(SelectSeq(page.paragraphs,
                                      LAMBDA t : t.length > 30 /\ t.length < 2000), 30)
        allText     == SelectSeq(<<page.headline, subheadline>> \o headings \o paragraphs,
                                 LAMBDA t : t.length # 0)
    IN  [headings             |-> headings,
         hero                 |-> [headline |-> page.headline, subheadline |-> subheadline],
         paragraphs           |-> paragraphs,
         definitionStatements |-> findDefinitionStatements(allText),
         audienceStatements   |-> findAudienceStatements(allText),
         claims               |-> findClaims(allText),
         proofPoints          |-> findProofPoints(allText)]

\* the lists of one field of the extractions, concatenated in page order
RECURSIVE pushAll(_, _)
pushAll(extractions, field) ==
    IF Len(extractions) = 0 THEN <<>>
    ELSE pushAll(SubSeq(extractions, 1, Len(extractions) - 1), field)
         \o extractions[Len(extractions)][field]

\* the last extraction of a page type, or Null
lastOfType(extractions, type) ==
    LET at == { i \in 1..Len(extractions) : extractions[i].pageType = type }
    IN  IF at = {} THEN Null
        ELSE extractions[CHOOSE i \in at : \A j \in at : j <= i]

\* the four statement lists pushed page by page and left as they are
combineSiteExtractionsNoDedupe(extractions) ==
    [homepage              |-> lastOfType(extractions, "homepage"),
     pageTypes             |-> { extractions[i].pageType : i \in 1..Len(extractions) },
     allDefinitions        |-> pushAll(extractions, "definitionStatements"),
     allAudienceStatements |-> pushAll(extractions, "audienceStatements"),
     allClaims             |-> pushAll(extractions, "claims"),
     allProofPoints        |-> pushAll(extractions, "proofPoints"),
     allFAQs               |-> pushAll(extractions, "faqs")]

\* combineSiteExtractions: pageTypes is kept as its keys
combineSiteExtractions(extractions) ==
    [homepage              |-> lastOfType(extractions, "homepage"),
     pageTypes             |-> { extractions[i].pageType : i \in 1..Len(extractions) },
     allDefinitions        |-> Dedupe(pushAll(extractions, "definitionStatements")),
     allAudienceStatements |-> Dedupe(pushAll(extractions, "audienceStatements")),
     allClaims             |-> Dedupe(pushAll(extractions, "claims")),
     allProofPoints        |-> Dedupe(pushAll(extractions, "proofPoints")),
     allFAQs               |-> pushAll(extractions, "faqs")]

\* extractions.some(e => e.pageType === 'pricing')
hasPricingPage(pages) == \E i \in 1..Len(pages) : pages[i].type = "pricing"

\* ------------------------------------------------------------------------
\* UNDERSTANDING
\* ------------------------------------------------------------------------
\* A JSON value found where a string is expected: a string (its text and its
\* lower-cased words), nothing, or a value of another type.
Str(text, words) == [kind |-> "string", text |-> text, words |-> words]

Absent == [kind |-> "absent"]

NonString == [kind |-> "array"]

\* JavaScript truthiness of such a value
Truthy(v) == IF v.kind = "string" THEN v.text # "" ELSE v.kind # "absent"

\* what the text-generation request can come back with
UnderstandingResponses ==
    { [ok |-> FALSE, content |-> "none", parsed |-> Null],
      [ok |-> TRUE, content |-> "malformed", parsed |-> Null] }
    \cup
    { [ok |-> TRUE, content |-> "json",
       parsed |-> [category |-> c, confidenceScore |-> 75, confidenceLevel |-> "High"]] :
         c \in {Str("CRM software", <<"crm", "software">>), Absent, NonString} }

fallbackUnderstanding ==
    [category |-> Str("Unknown", <<"unknown">>),
     confidence |-> [score |-> 30, level |-> "Low"]]

generateUnderstanding(resp) ==
    IF ~resp.ok THEN fallbackUnderstanding
    ELSE IF resp.content # "json" THEN fallbackUnderstanding
    ELSE [category |-> IF Truthy(resp.parsed.category) THEN resp.parsed.category
                       ELSE Str("Unclear", <<"unclear">>),
          confidence |-> [score |-> IF resp.parsed.confidenceScore # 0
                                    THEN resp.parsed.confidenceScore ELSE 50,
                          level |-> resp.parsed.confidenceLevel]]

\* ------------------------------------------------------------------------
\* MANIFEST (llms.txt) ANALYSIS
\* ------------------------------------------------------------------------
\* A manifest text, by what analyzeLlmsTxt reads off it: the lower-case words
\* it contains, its length, whether it holds a '#', whether it holds a fluff word.
ManifestTexts ==
    { [contains |-> {"acme", "crm"}, length |-> 1800, hasHash |-> TRUE, fluff |-> FALSE],
      [contains |-> {"acme"}, length |-> 2500, hasHash |-> TRUE, fluff |-> FALSE],
      [contains |-> {}, length |-> 6000, hasHash |-> FALSE, fluff |-> TRUE] }

\* understanding.category?.toLowerCase() is a call on whatever the response
\* held under "category": it throws when that is truthy and not a string
analyzeLlmsTxtThrows(txt, und) ==
    /\ txt # Null
    /\ txt.length # 0
    /\ und.category.kind \notin {"string", "absent"}

\* the length test of check 3 written <= 2000
alignmentScoreInclusiveLength(txt, sd, und) ==
    (IF sd.title # <<>> /\ Head(sd.title) \in txt.contains THEN 1 ELSE 0)
    + (IF und.category.kind = "string" /\ und.category.words # <<>>
          /\ Head(und.category.words) \in txt.contains
       THEN 1 ELSE 0)
    + (IF txt.length <= 2000 /\ txt.hasHash THEN 1 ELSE 0)
    + (IF ~txt.fluff THEN 1 ELSE 0)

alignmentScore(txt, sd, und) ==
    (IF sd.title # <<>> /\ Head(sd.title) \in txt.contains THEN 1 ELSE 0)
    + (IF und.category.kind = "string" /\ und.category.words # <<>>
          /\ Head(und.category.words) \in txt.contains
       THEN 1 ELSE 0)
    + (IF txt.length < 2000 /\ txt.hasHash THEN 1 ELSE 0)
    + (IF ~txt.fluff THEN 1 ELSE 0)

\* the misalignment branch leaving modifier at its initial 0
analyzeLlmsTxtNoPenalty(txt, sd, und) ==
    IF txt = Null \/ txt.length = 0
    THEN [present |-> FALSE, aligned |-> "null", modifier |-> 0]
    ELSE LET score   == alignmentScore(txt, sd, und)
             checks  == 4
             aligned == 2 * score >= checks
         IN  [present |-> TRUE, aligned |-> IF aligned THEN "true" ELSE "false",
              modifier |-> IF aligned THEN MathRound(3 * checks + 2 * score, checks)
                           ELSE 0]

analyzeLlmsTxt(txt, sd, und) ==
    IF txt = Null \/ txt.length = 0
    THEN [present |-> FALSE, aligned |-> "null", modifier |-> 0]
    ELSE LET score   == alignmentScore(txt, sd, und)
             checks  == 4
             aligned == 2 * score >= checks
         IN  [present |-> TRUE, aligned |-> IF aligned THEN "true" ELSE "false",
              modifier |-> IF aligned THEN MathRound(3 * checks + 2 * score, checks)
                           ELSE -5]

\* ------------------------------------------------------------------------
\* BLOCKERS
\* ------------------------------------------------------------------------
\* title, description, the snippet of the single evidence entry and
\* fixStrategy are kept by their origin: "orig" is the text the check wrote
Blocker(code, pillar, severity) ==
    [code |-> code, title |-> "orig", pillar |-> pillar, severity |-> severity,
     description |-> "orig", snippet |-> "orig", fixStrategy |-> "orig"]

When(cond, blocker) == IF cond THEN <<blocker>> ELSE <<>>

checkLanguageClarity(sd) ==
    When(sd.vagueHero, Blocker("CLARITY_VAGUE_HERO", "clarity", 90))
    \o When(sd.nDefinitions = 0, Blocker("CLARITY_NO_DEFINITION", "clarity", 92))

checkProblemFraming(sd) ==
    When(~sd.problemFraming /\ sd.solutionOnly,
         Blocker("CLARITY_NO_PROBLEM_FRAMING", "clarity", 78))
    \o When(~sd.questions /\ ~sd.problemFraming,
            Blocker("CLARITY_NO_QUERY_MATCHING", "audience", 65))

checkSpecificity(sd) ==
    When(~sd.realExamples, Blocker("SPECIFICITY_NO_EXAMPLES", "specificity", 86))
    \o When(~sd.outcomes, Blocker("SPECIFICITY_NO_OUTCOMES", "specificity", 80))
    \o When(sd.proprietaryTerms > 0,
            Blocker("SPECIFICITY_PROPRIETARY_JARGON", "specificity", 65))

checkProofPoints(sd) ==
    When(~sd.caseStudies, Blocker("PROOF_NO_CASE_STUDIES", "proof", 84))
    \o When(~sd.testimonials, Blocker("PROOF_NO_TESTIMONIALS", "proof", 75))
    \o When(sd.platforms = 0 /\ ~sd.asSeenOn,
            Blocker("PROOF_NO_THIRD_PARTY", "proof", 72))

checkAudienceClarity(sd) ==
    When(sd.nAudience = 0, Blocker("AUDIENCE_NOT_SPECIFIC", "audience", 80))
    \o When(~sd.sizeWord, Blocker("AUDIENCE_NO_SIZE", "audience", 65))

\* the early return after SPECIFICITY_NO_SCHEMA left out
checkSchemaMarkupNoEarlyReturn(sd) ==
    When(sd.schemaTypes = 0, Blocker("SPECIFICITY_NO_SCHEMA", "specificity", 82))
    \o When(~sd.hasOrganization, Blocker("SPECIFICITY_NO_ORG_SCHEMA", "specificity", 68))
    \o When(~sd.hasReview /\ sd.nProofPoints > 0,
            Blocker("PROOF_NO_REVIEW_SCHEMA", "proof", 60))
    \o When(~sd.hasFAQ /\ sd.nFAQs > 0,
            Blocker("SPECIFICITY_NO_FAQ_SCHEMA", "audience", 55))

checkSchemaMarkup(sd) ==
    IF sd.schemaTypes = 0
    THEN <<Blocker("SPECIFICITY_NO_SCHEMA", "specificity", 82)>>
    ELSE When(~sd.hasOrganization, Blocker("SPECIFICITY_NO_ORG_SCHEMA", "specificity", 68))
         \o When(~sd.hasReview /\ sd.nProofPoints > 0,
                 Blocker("PROOF_NO_REVIEW_SCHEMA", "proof", 60))
         \o When(~sd.hasFAQ /\ sd.nFAQs > 0,
                 Blocker("SPECIFICITY_NO_FAQ_SCHEMA", "audience", 55))

checkFactualDensity(sd) ==
    When(sd.lowFactDensity, Blocker("SPECIFICITY_LOW_FACT_DENSITY", "specificity", 72))
    \o When(sd.vagueComparatives > 0,
            Blocker("SPECIFICITY_VAGUE_COMPARATIVES", "specificity", 58))

checkProductDataSignals(sd, pages) ==
    LET hasPricing == hasPricingPage(pages) \/ sd.pricingText
    IN  When(~sd.hasProduct /\ hasPricing,
             Blocker("SPECIFICITY_NO_PRODUCT_SCHEMA", "specificity", 70))
        \o When(hasPricing /\ sd.missingAttributes >= 3,
                Blocker("SPECIFICITY_MISSING_ATTRIBUTES", "specificity", 55))
        \o When(~sd.freshness /\ hasPricing,
                Blocker("SPECIFICITY_NO_FRESHNESS", "specificity", 50))

\* the second branch written as a plain else
checkLlmsTxtElse(analysis) ==
    IF ~analysis.present
    THEN <<Blocker("CLARITY_NO_LLMS_TXT", "clarity", 70)>>
    ELSE <<Blocker("CLARITY_LLMS_TXT_MISALIGNED", "clarity", 55)>>

\* if (!present) push(NO_LLMS_TXT) else if (aligned === false) push(MISALIGNED)
checkLlmsTxt(analysis) ==
    IF ~analysis.present
    THEN <<Blocker("CLARITY_NO_LLMS_TXT", "clarity", 70)>>
    ELSE When(analysis.aligned = "false",
              Blocker("CLARITY_LLMS_TXT_MISALIGNED", "clarity", 55))

\* blockers.sort((a, b) => b.severity - a.severity): a stable sort
RECURSIVE sortBySeverity(_)
sortBySeverity(list) ==
    IF Len(list) = 0 THEN <<>>
    ELSE LET front == sortBySeverity(SubSeq(list, 1, Len(list) - 1))
             last  == list[Len(list)]
             ahead == SelectSeq(front, LAMBDA b : b.severity >= last.severity)
             after == SelectSeq(front, LAMBDA b : b.severity < last.severity)
         IN  ahead \o <<last>> \o after

\* the sort left out
runBlockerChecksUnsorted(sd, pages, analysis) ==
    checkLanguageClarity(sd) \o checkProblemFraming(sd) \o checkSpecificity(sd)
    \o checkProofPoints(sd) \o checkAudienceClarity(sd) \o checkSchemaMarkup(sd)
    \o checkFactualDensity(sd) \o checkProductDataSignals(sd, pages)
    \o checkLlmsTxt(analysis)

runBlockerChecks(sd, pages, analysis) ==
    sortBySeverity(checkLanguageClarity(sd)
                   \o checkProblemFraming(sd)
                   \o checkSpecificity(sd)
                   \o checkProofPoints(sd)
                   \o checkAudienceClarity(sd)
                   \o checkSchemaMarkup(sd)
                   \o checkFactualDensity(sd)
                   \o checkProductDataSignals(sd, pages)
                   \o checkLlmsTxt(analysis))

\* ------------------------------------------------------------------------
\* STRENGTHS
\* ------------------------------------------------------------------------
Strength(code, pillar, impact) == [code |-> code, pillar |-> pillar, impact |-> impact]

\* strengths.sort((a, b) => b.impact - a.impact): a stable sort
RECURSIVE sortByImpact(_)
sortByImpact(list) ==
    IF Len(list) = 0 THEN <<>>
    ELSE LET front == sortByImpact(SubSeq(list, 1, Len(list) - 1))
             last  == list[Len(list)]
             ahead == SelectSeq(front, LAMBDA x : x.impact >= last.impact)
             after == SelectSeq(front, LAMBDA x : x.impact < last.impact)
         IN  ahead \o <<last>> \o after

runStrengthChecks(sd, analysis) ==
    sortByImpact(
        When(sd.schemaTypes > 0, Strength("STRENGTH_HAS_SCHEMA", "specificity", 75))
        \o When(sd.hasOrganization, Strength("STRENGTH_ORG_SCHEMA", "specificity", 65))
        \o When(sd.hasReview, Strength("STRENGTH_REVIEW_SCHEMA", "proof", 80))
        \o When(sd.hasFAQ, Strength("STRENGTH_FAQ_SCHEMA", "audience", 70))
        \o When(sd.quantifiedOutcomes,
                Strength("STRENGTH_QUANTIFIED_OUTCOMES", "specificity", 85))
        \o When(sd.mentionedPlatforms > 0, Strength("STRENGTH_THIRD_PARTY", "proof", 82))
        \o When(sd.nDefinitions > 0, Strength("STRENGTH_CLEAR_DEFINITION", "clarity", 78))
        \o When(sd.nAudience > 0, Strength("STRENGTH_AUDIENCE_CLARITY", "audience", 72))
        \o When(sd.customerStories, Strength("STRENGTH_CASE_STUDIES", "proof", 80))
        \o When(sd.quotedTestimonials, Strength("STRENGTH_TESTIMONIALS", "proof", 75))
        \o When(sd.problemFirst, Strength("STRENGTH_PROBLEM_FRAMING", "clarity", 70))
        \o When(sd.nFAQs >= 3, Strength("STRENGTH_FAQ_CONTENT", "audience", 68))
        \o When(sd.highFactDensity,
                Strength("STRENGTH_HIGH_FACT_DENSITY", "specificity", 78))
        \o When(sd.hasProduct, Strength("STRENGTH_PRODUCT_SCHEMA", "specificity", 76))
        \o When(sd.freshness, Strength("STRENGTH_FRESHNESS_SIGNALS", "specificity", 62))
        \o When(sd.presentAttributes >= 2,
                Strength("STRENGTH_PRODUCT_ATTRIBUTES", "specificity", 65))
        \o When(analysis.present /\ analysis.aligned = "true",
                Strength("STRENGTH_LLMS_TXT", "clarity", 72)))

\* rawBlockers.slice(0, 5) and rawBlockers.slice(5)
TopCount == 5

sliceTop(list) == SubSeq(list, 1, Min(TopCount, Len(list)))

sliceRest(list) == SubSeq(list, TopCount + 1, Len(list))

\* ------------------------------------------------------------------------
\* BLOCKER ENRICHMENT
\* ------------------------------------------------------------------------
\* What the enrichment request can come back with.  A usable response holds an
\* enrichments array; an entry gives a code and, each possibly empty, the three
\* replacement texts.
EnrichmentWith(code, issue, example, fix) ==
    [code |-> code, siteSpecificIssue |-> issue, concreteExample |-> example,
     specificFix |-> fix]

Enrichment(code) == EnrichmentWith(code, "gpt", "gpt", "gpt")

\* a settled request: fetch rejected, or resolved with a status (ok or not),
\* a message content (none, text that is not JSON, or JSON) and, for JSON,
\* whether it holds an enrichments array and the array
EnrichmentResponse(rejected, ok, content, hasArray, enrichments) ==
    [rejected |-> rejected, ok |-> ok, content |-> content, hasArray |-> hasArray,
     enrichments |-> enrichments]

FailedEnrichmentResponses ==
    { EnrichmentResponse(TRUE, FALSE, "none", FALSE, <<>>),
      EnrichmentResponse(FALSE, FALSE, "none", FALSE, <<>>),
      EnrichmentResponse(FALSE, TRUE, "none", FALSE, <<>>),
      EnrichmentResponse(FALSE, TRUE, "malformed", FALSE, <<>>),
      EnrichmentResponse(FALSE, TRUE, "json", FALSE, <<>>) }

\* the responses of the model for a run whose sorted blockers are raw: the
\* failures, an entry for every blocker of raw (the ones past the fifth
\* included), an entry for the first blocker with an entry of an unknown code,
\* and an entry for the first blocker that fills one of the three texts only
EnrichmentResponses(raw) ==
    FailedEnrichmentResponses
    \cup
    { EnrichmentResponse(FALSE, TRUE, "json", TRUE,
                         [i \in 1..Len(raw) |-> Enrichment(raw[i].code)]),
      EnrichmentResponse(FALSE, TRUE, "json", TRUE,
                         [i \in 1..Min(1, Len(raw)) |-> Enrichment(raw[i].code)]
                         \o <<Enrichment("NOT_A_BLOCKER")>>),
      EnrichmentResponse(FALSE, TRUE, "json", TRUE,
                         [i \in 1..Min(1, Len(raw)) |->
                             EnrichmentWith(raw[i].code, "", "gpt", "")]) }

\* the request succeeded: what the run's log of request outcomes records
enrichmentSucceeded(resp) == ~resp.rejected /\ resp.ok /\ resp.content = "json"

\* the codes the entries of a usable response name
enrichmentCodes(resp) ==
    IF enrichmentSucceeded(resp) /\ resp.hasArray
    THEN { resp.enrichments[i].code : i \in 1..Len(resp.enrichments) }
    ELSE {}

\* parsed.enrichments.find(e => e.code === blocker.code)
findEnrichment(enrichments, code) ==
    LET hits == SelectSeq(enrichments, LAMBDA e : e.code = code)
    IN  IF Len(hits) = 0 THEN Null ELSE Head(hits)

\* x || y on texts, "" being the only falsy text
OrElse(x, y) == IF x # "" THEN x ELSE y

mergeEnrichment(blocker, enrichments) ==
    LET e == findEnrichment(enrichments, blocker.code)
    IN  IF e = Null THEN blocker
        ELSE [blocker EXCEPT
                !.description = OrElse(e.siteSpecificIssue, blocker.description),
                !.snippet     = OrElse(e.concreteExample, blocker.snippet),
                !.fixStrategy = OrElse(e.specificFix, blocker.fixStrategy)]

\* a failed request answered with an empty list
enrichBlockersWithGPTEmptyOnFailure(top, resp) ==
    IF Len(top) = 0 THEN top
    ELSE IF resp.rejected THEN <<>>
    ELSE IF ~resp.ok THEN <<>>
    ELSE IF resp.content = "none" THEN top
    ELSE IF resp.content = "malformed" THEN <<>>
    ELSE IF ~resp.hasArray THEN top
    ELSE [i \in 1..Len(top) |-> mergeEnrichment(top[i], resp.enrichments)]

\* the merge written as a filter: blockers without an entry are dropped
enrichBlockersWithGPTDropsUnmatched(top, resp) ==
    IF Len(top) = 0 THEN top
    ELSE IF resp.rejected THEN top
    ELSE IF ~resp.ok THEN top
    ELSE IF resp.content = "none" THEN top
    ELSE IF resp.content = "malformed" THEN top
    ELSE IF ~resp.hasArray THEN top
    ELSE LET merged == [i \in 1..Len(top) |-> mergeEnrichment(top[i], resp.enrichments)]
         IN  SelectSeq(merged, LAMBDA b : findEnrichment(resp.enrichments, b.code) # Null)

\* enrichBlockersWithGPT once the request has settled with resp (no request is
\* made for an empty list)
enrichBlockersWithGPT(top, resp) ==
    IF Len(top) = 0 THEN top
    ELSE IF resp.rejected THEN top
    ELSE IF ~resp.ok THEN top
    ELSE IF resp.content = "none" THEN top
    ELSE IF resp.content = "malformed" THEN top
    ELSE IF ~resp.hasArray THEN top
    ELSE [i \in 1..Len(top) |-> mergeEnrichment(top[i], resp.enrichments)]

\* ------------------------------------------------------------------------
\* SCAN ELIGIBILITY (lib/supabase.ts, lib/db-helpers.ts)
\* ------------------------------------------------------------------------
\* the users row of an email: none, or its is_premium and scan_count
NoRecord == [exists |-> FALSE]

UserRecord(isPremium, scanCount) ==
    [exists |-> TRUE, is_premium |-> isPremium, scan_count |-> scanCount]

\* how the select query settles: with the row ("ok"; no row is reported as an
\* error by .single()), with an error object, or by rejecting
QueryOutcomes == {"ok", "error", "rejects"}

\* getUserByEmail for a configured store: the row, or null on any error
getUserByEmail(record, query) ==
    IF query = "ok" /\ record.exists THEN record ELSE Null

Allowed(user) == [allowed |-> TRUE, reason |-> "", user |-> user]

Refused(user) == [allowed |-> FALSE, reason |-> "used free scan", user |-> user]

\* the limit test written scan_count > 1
canUserScanOffByOne(configured, record, query) ==
    IF ~configured THEN Allowed(Null)
    ELSE LET user == getUserByEmail(record, query)
         IN  IF user = Null THEN Allowed(Null)
             ELSE IF user.is_premium THEN Allowed(user)
             ELSE IF user.scan_count > 1 THEN Refused(user)
             ELSE Allowed(user)

\* canUserScan when the query does not reject
canUserScan(configured, record, query) ==
    IF ~configured THEN Allowed(Null)
    ELSE LET user == getUserByEmail(record, query)
         IN  IF user = Null THEN Allowed(Null)
             ELSE IF user.is_premium THEN Allowed(user)
             ELSE IF user.scan_count >= 1 THEN Refused(user)
             ELSE Allowed(user)

\* a rejected query rejects canUserScan: nothing in it catches
canUserScanThrows(configured, query) == configured /\ query = "rejects"

\* checkUserCanScan: allowed when not configured and on any error
checkUserCanScan(configured, record, query) ==
    IF ~configured THEN Allowed(Null)
    ELSE IF canUserScanThrows(configured, query) THEN Allowed(Null)
    ELSE canUserScan(configured, record, query)

\* getOrCreateUser: the row the select finds; else the row the insert creates,
\* or null when the insert returns an error (as it does when the select
\* failed on a row that exists: email is UNIQUE); a rejected request throws
getOrCreateUser(row, find, create) ==
    IF find = "rejects" THEN [threw |-> TRUE, user |-> Null, row |-> row]
    ELSE IF find = "ok" /\ row.exists THEN [threw |-> FALSE, user |-> row, row |-> row]
    ELSE IF create = "rejects" THEN [threw |-> TRUE, user |-> Null, row |-> row]
    ELSE IF create = "ok" /\ ~row.exists
    THEN [threw |-> FALSE, user |-> UserRecord(FALSE, 0), row |-> UserRecord(FALSE, 0)]
    ELSE [threw |-> FALSE, user |-> Null, row |-> row]

\* incrementUserScanCount: await supabase.rpc('increment_scan_count', ...),
\* what the rpc resolves to is not looked at
incrementUserScanCount(row, rpc) ==
    IF rpc = "ok" THEN [row EXCEPT !.scan_count = @ + 1] ELSE row

SaveResult(success, analysisId, message) ==
    [success |-> success, analysisId |-> analysisId, error |-> message]

\* saveAnalysisToDb: what it returns (analysisId: whether one is returned)
\* and the row it leaves, for the outcomes of its four store requests
saveAnalysisToDb(configured, row, find, create, save, rpc) ==
    IF ~configured THEN [ret |-> SaveResult(TRUE, FALSE, ""), row |-> row]
    ELSE LET got == getOrCreateUser(row, find, create)
         IN  IF got.threw
             THEN [ret |-> SaveResult(FALSE, FALSE, "thrown"), row |-> got.row]
             ELSE IF got.user = Null
             THEN [ret |-> SaveResult(FALSE, FALSE, "Failed to create user"),
                   row |-> got.row]
             ELSE IF save = "rejects"
             THEN [ret |-> SaveResult(FALSE, FALSE, "thrown"), row |-> got.row]
             ELSE IF save = "error"
             THEN [ret |-> SaveResult(FALSE, FALSE, "Failed to save analysis"),
                   row |-> got.row]
             ELSE IF rpc = "rejects"
             THEN [ret |-> SaveResult(FALSE, FALSE, "thrown"), row |-> got.row]
             ELSE [ret |-> SaveResult(TRUE, TRUE, ""),
                   row |-> incrementUserScanCount(got.row, rpc)]

\* ------------------------------------------------------------------------
\* Specification Spec: one run of POST /api/analyze
\* ------------------------------------------------------------------------
StepEvent(n) == [type |-> "step", step |-> n, error |-> ""]

ErrorEvent(msg) == [type |-> "error", step |-> 0, error |-> msg]

CompleteEvent == [type |-> "complete", step |-> 0, error |-> ""]

UnderstandingRequest == "api.openai.com#understanding"

EnrichmentRequest == "api.openai.com#enrichment"

\* the homepage bodies of the model: up to MaxLinks anchors from HrefPool
HomepageBodies ==
    { [anchors |-> a] : a \in UNION { [1..k -> HrefPool] : k \in 0..MaxLinks } }

\* what the fetch of /llms.txt resolves to: a failure, an empty body or a text
ManifestFetches ==
    FetchFailures
    \cup { [success |-> TRUE, html |-> [empty |-> TRUE]] }
    \cup { [success |-> TRUE, html |-> t] : t \in ManifestTexts }

Init ==
    /\ url \in {"ok", "malformed"}
    /\ pc = "start"
    /\ events = <<>>
    /\ closed = FALSE
    /\ fetchLog = <<>>
    /\ outcomes = <<>>
    /\ homepageHtml = Null
    /\ results = <<>>
    /\ crawled = {}
    /\ llmsTxt = Null
    /\ allPaths = <<>>
    /\ pathIdx = 0
    /\ crawlResult = Null
    /\ site = Null
    /\ understanding = Null
    /\ llmsTxtAnalysis = Null
    /\ rawBlockers = <<>>
    /\ blockers = <<>>
    /\ result = Null
    /\ call = NoCall
    /\ IdleClient
    /\ IdleStore
    /\ sIn = <<>>
    /\ sMod = 0
    /\ sOut = calculateScores(<<>>, 0)
    /\ sPrev = NoCall

crawlLocals == <<homepageHtml, results, crawled, llmsTxt, allPaths, pathIdx>>

analysisLocals == <<site, understanding, llmsTxtAnalysis, rawBlockers, blockers, result>>

\* a bug that sends the error event and leaves the stream open
EndWithErrorNoClose(sent, msg) ==
    /\ events' = Append(sent, ErrorEvent(msg))
    /\ closed' = closed
    /\ pc' = "done"

\* a bug that reports a fixed text instead of the error at hand
EndWithGenericError(sent, msg) ==
    /\ events' = Append(sent, ErrorEvent("Analysis failed"))
    /\ closed' = TRUE
    /\ pc' = "done"

\* the catch block of the run, and the early return on a failed crawl:
\* send({type: 'error', ...}); close()
EndWithError(sent, msg) ==
    /\ events' = Append(sent, ErrorEvent(msg))
    /\ closed' = TRUE
    /\ pc' = "done"

\* POST is called: step 1 is sent and crawlSite runs up to its first await
StartRun ==
    /\ pc = "start"
    /\ IF url = "malformed"
       THEN /\ EndWithError(Append(events, StepEvent(1)), "Invalid URL")
            /\ UNCHANGED fetchLog
       ELSE /\ events' = Append(events, StepEvent(1))
            /\ fetchLog' = Append(fetchLog, HomepageUrl)
            /\ pc' = "fetch_home"
            /\ UNCHANGED closed
    /\ UNCHANGED <<url, outcomes, crawlLocals, crawlResult, analysisLocals, scoreVars, pureVars, clientVars, storeVars>>

\* the homepage fetch resolves
HomepageReturns ==
    /\ pc = "fetch_home"
    /\ \E r \in FetchFailures \cup { [success |-> TRUE, html |-> h] : h \in HomepageBodies } :
          /\ outcomes' = Append(outcomes, [success |-> r.success,
                                            error |-> IF r.success THEN "" ELSE r.error])
          /\ IF ~r.success
             THEN /\ crawlResult' = [success |-> FALSE, error |-> r.error, pages |-> <<>>]
                  /\ EndWithError(events, r.error)
                  /\ UNCHANGED <<fetchLog, crawlLocals>>
             ELSE /\ homepageHtml' = r.html
                  /\ results' = <<Page(HomepageUrl, "homepage")>>
                  /\ crawled' = {HomepageUrl, HomepageUrl \o "/"}
                  /\ fetchLog' = Append(fetchLog, ManifestUrl)
                  /\ pc' = "fetch_llms"
                  /\ UNCHANGED <<events, closed, crawlResult, llmsTxt, allPaths, pathIdx>>
    /\ UNCHANGED <<url, analysisLocals, scoreVars, pureVars, clientVars, storeVars>>

\* The crawl loop from index `from` on, with the pages and the manifest held so
\* far: either the next page fetch is issued, or crawlSite returns.
ContinueCrawl(pages, seen, paths, from, txt) ==
    LET i == nextFetchIndex(paths, from, pages, seen)
    IN  /\ results' = pages
        /\ crawled' = seen
        /\ allPaths' = paths
        /\ llmsTxt' = txt
        /\ UNCHANGED homepageHtml
        /\ IF i # 0
           THEN /\ pathIdx' = i
                /\ fetchLog' = Append(fetchLog, pageUrl(paths[i]))
                /\ pc' = "fetch_page"
                /\ UNCHANGED crawlResult
           ELSE /\ crawlResult' = [success |-> TRUE, error |-> "", pages |-> pages,
                                   crawledCount |-> Len(pages), llmsTxt |-> txt]
                /\ pc' = "crawled"
                /\ UNCHANGED <<pathIdx, fetchLog>>

\* the fetch of /llms.txt resolves; the homepage's anchors are read
LlmsReturns ==
    /\ pc = "fetch_llms"
    /\ \E r \in ManifestFetches :
          /\ outcomes' = Append(outcomes, [success |-> r.success, error |-> ""])
          /\ ContinueCrawl(results, crawled, computeAllPaths(homepageHtml.anchors), 1,
                           manifestText(r))
    /\ UNCHANGED <<url, events, closed, analysisLocals, scoreVars, pureVars, clientVars, storeVars>>

\* the fetch of an additional page resolves
PageReturns ==
    /\ pc = "fetch_page"
    /\ \E r \in FetchFailures \cup { [success |-> TRUE] } :
          LET path == allPaths[pathIdx]
          IN  /\ outcomes' = Append(outcomes, [success |-> r.success, error |-> ""])
              /\ ContinueCrawl(
                    pagesAfterFetch(results, path, r),
                    IF r.success THEN crawled \cup {pageUrl(path)} ELSE crawled,
                    allPaths, pathIdx + 1, llmsTxt)
    /\ UNCHANGED <<url, events, closed, analysisLocals, scoreVars, pureVars, clientVars, storeVars>>

\* crawlSite has returned success: steps 2 and 3, the extraction of the crawled
\* pages, and the understanding request
AfterCrawl ==
    /\ pc = "crawled"
    /\ events' = events \o <<StepEvent(2), StepEvent(3)>>
    /\ site' \in SiteProfiles
    /\ fetchLog' = Append(fetchLog, UnderstandingRequest)
    /\ pc' = "await_understanding"
    /\ homepageHtml' = Null
    /\ results' = <<>>
    /\ crawled' = {}
    /\ allPaths' = <<>>
    /\ llmsTxt' = Null
    /\ pathIdx' = 0
    /\ UNCHANGED <<url, closed, outcomes, crawlResult, understanding, llmsTxtAnalysis,
                   rawBlockers, blockers, result, scoreVars, pureVars, clientVars, storeVars>>

\* a bug that leaves out the step 5 event
FinishWithoutStep5(sent, analysis, und, raw, final) ==
    /\ llmsTxtAnalysis' = analysis
    /\ understanding' = und
    /\ rawBlockers' = raw
    /\ blockers' = final
    /\ result' = [success |-> TRUE, pagesAnalyzed |-> crawlResult.crawledCount,
                  scores |-> calculateScores(final, analysis.modifier),
                  understanding |-> und, blockers |-> final,
                  strengths |-> runStrengthChecks(site, analysis), llmsTxt |-> analysis]
    /\ events' = Append(sent, CompleteEvent)
    /\ closed' = TRUE
    /\ pc' = "done"

\* strengths, step 5, the scores, the complete event and close()
Finish(sent, analysis, und, raw, final) ==
    /\ llmsTxtAnalysis' = analysis
    /\ understanding' = und
    /\ rawBlockers' = raw
    /\ blockers' = final
    /\ result' = [success |-> TRUE, pagesAnalyzed |-> crawlResult.crawledCount,
                  scores |-> calculateScores(final, analysis.modifier),
                  understanding |-> und, blockers |-> final,
                  strengths |-> runStrengthChecks(site, analysis), llmsTxt |-> analysis]
    /\ events' = sent \o <<StepEvent(5), CompleteEvent>>
    /\ closed' = TRUE
    /\ pc' = "done"

\* the understanding request resolves: step 4, the manifest analysis, the
\* blocker checks, and the enrichment request for the top blockers
UnderstandingReturns ==
    /\ pc = "await_understanding"
    /\ \E resp \in UnderstandingResponses :
          LET und  == generateUnderstanding(resp)
              sent == Append(events, StepEvent(4))
          IN  /\ outcomes' = Append(outcomes, [success |-> resp.ok /\ resp.content = "json",
                                                error |-> ""])
              /\ IF analyzeLlmsTxtThrows(crawlResult.llmsTxt, und)
                 THEN /\ understanding' = und
                      /\ EndWithError(sent, "TypeError")
                      /\ UNCHANGED <<fetchLog, llmsTxtAnalysis, rawBlockers, blockers, result>>
                 ELSE LET analysis == analyzeLlmsTxt(crawlResult.llmsTxt, site, und)
                          raw      == runBlockerChecks(site, crawlResult.pages, analysis)
                      IN  IF Len(sliceTop(raw)) = 0
                          THEN /\ Finish(sent, analysis, und, raw,
                                         sliceTop(raw) \o sliceRest(raw))
                               /\ UNCHANGED fetchLog
                          ELSE /\ understanding' = und
                               /\ llmsTxtAnalysis' = analysis
                               /\ rawBlockers' = raw
                               /\ events' = sent
                               /\ fetchLog' = Append(fetchLog, EnrichmentRequest)
                               /\ pc' = "await_enrich"
                               /\ UNCHANGED <<closed, blockers, result>>
    /\ UNCHANGED <<url, crawlLocals, crawlResult, site, scoreVars, pureVars, clientVars, storeVars>>

\* the enrichment request resolves
EnrichReturns ==
    /\ pc = "await_enrich"
    /\ \E resp \in EnrichmentResponses(rawBlockers) :
          /\ outcomes' = Append(outcomes, [success |-> enrichmentSucceeded(resp),
                                            error |-> "",
                                            codes |-> enrichmentCodes(resp)])
          /\ Finish(events, llmsTxtAnalysis, understanding, rawBlockers,
                    enrichBlockersWithGPT(sliceTop(rawBlockers), resp)
                    \o sliceRest(rawBlockers))
    /\ UNCHANGED <<url, fetchLog, crawlLocals, crawlResult, site, scoreVars, pureVars, clientVars, storeVars>>

Next ==
    \/ StartRun
    \/ HomepageReturns
    \/ LlmsReturns
    \/ PageReturns
    \/ AfterCrawl
    \/ UnderstandingReturns
    \/ EnrichReturns

Spec == Init /\ [][Next]_vars

\* ------------------------------------------------------------------------
\* Properties of a run (checked under Spec)
\* ------------------------------------------------------------------------
Range(seq) == { seq[i] : i \in 1..Len(seq) }

Terminals == { i \in 1..Len(events) : events[i].type \in {"complete", "error"} }

LastEvent == events[Len(events)]

HomepageFetched == Len(outcomes) >= 1

\* C1: the events of a run are the step events 1, 2, ... in order and without
\* gaps, followed by exactly one terminal event (complete or error); the
\* terminal event is the last event and the stream is closed with it; a complete
\* event comes only after all five step events.
C1_StreamOrder ==
    /\ \A i \in 1..Len(events) : events[i].type = "step" => events[i].step = i
    /\ Cardinality(Terminals) <= 1
    /\ \A i \in Terminals : i = Len(events) /\ closed
    /\ closed => Terminals # {}
    /\ pc = "done" => closed
    /\ \A i \in Terminals : events[i].type = "complete" => i = 6

C1_Witness ==
    /\ pc = "done"
    /\ closed
    /\ Len(events) = 6
    /\ events[6].type = "complete"
    /\ \A i \in 1..5 : events[i] = StepEvent(i)

\* C2: when the homepage fetch fails, crawlSite returns success = false with
\* that fetch's error and no pages, nothing but the homepage has been fetched,
\* and the run has sent step 1 and the error event, closed the stream and
\* stopped (no step 2 or later, no complete event).
C2_HomepageFailure ==
    (HomepageFetched /\ ~outcomes[1].success) =>
        /\ crawlResult = [success |-> FALSE, error |-> outcomes[1].error, pages |-> <<>>]
        /\ fetchLog = <<HomepageUrl>>
        /\ events = <<StepEvent(1), ErrorEvent(outcomes[1].error)>>
        /\ closed
        /\ pc = "done"

C2_Witness ==
    /\ HomepageFetched
    /\ outcomes[1] = [success |-> FALSE, error |-> "HTTP 500"]
    /\ crawlResult # Null
    /\ crawlResult.error = "HTTP 500"

\* C3 as stated: every finished run has emitted exactly 6 events, five step
\* events and one terminal event.
C3_AlwaysSixEvents ==
    pc = "done" =>
        /\ Len(events) = 6
        /\ Cardinality(Terminals) = 1
        /\ Cardinality({ i \in 1..Len(events) : events[i].type = "step" }) = 5

\* C3 as amended: a run emits at most 6 events; a run that ends with complete
\* has emitted exactly 6, five step events and the complete event; a run that
\* ends with error has emitted the step events sent so far and the error event,
\* and exactly 2 events when the homepage fetch failed.
C3_AtMostSixEvents ==
    /\ Len(events) <= 6
    /\ pc = "done" =>
          /\ LastEvent.type = "complete" =>
                /\ Len(events) = 6
                /\ \A i \in 1..5 : events[i].type = "step"
          /\ LastEvent.type = "error" =>
                /\ Len(events) >= 2
                /\ \A i \in 1..(Len(events) - 1) : events[i].type = "step"
          /\ (HomepageFetched /\ ~outcomes[1].success) => Len(events) = 2

C3_Witness ==
    /\ pc = "done"
    /\ HomepageFetched
    /\ ~outcomes[1].success
    /\ Len(events) = 2
    /\ LastEvent.type = "error"

\* the outcome of the request sent to req, once it has resolved
Resolved(req) == \E i \in 1..Len(outcomes) : fetchLog[i] = req

OutcomeOf(req) == outcomes[CHOOSE i \in 1..Len(outcomes) : fetchLog[i] = req]

\* C4: if the homepage fetch succeeded, a finished run has ended with a complete
\* event and not with an error event, whatever the understanding and the
\* enrichment requests came back with; when the understanding request failed
\* the understanding is the fallback (category 'Unknown', score 30, level
\* 'Low'), and when the enrichment request failed the blockers carry their
\* original text.
C4_CompletesAfterHomepage ==
    (pc = "done" /\ HomepageFetched /\ outcomes[1].success) =>
        /\ LastEvent.type = "complete"
        /\ ~OutcomeOf(UnderstandingRequest).success =>
              /\ result.understanding.category.text = "Unknown"
              /\ result.understanding.confidence = [score |-> 30, level |-> "Low"]
        /\ (Resolved(EnrichmentRequest) /\ ~OutcomeOf(EnrichmentRequest).success) =>
              \A i \in 1..Len(result.blockers) :
                  /\ result.blockers[i].description = "orig"
                  /\ result.blockers[i].snippet = "orig"
                  /\ result.blockers[i].fixStrategy = "orig"

\* the URLs the page loop of crawlSite has fetched: the log without the homepage
\* and manifest requests that precede the loop
PageFetches == {fetchLog[k] : k \in 3..Len(fetchLog)}

\* C5: crawlSite holds at most 8 pages, the homepage included, and once it holds
\* 8 it fetches no further page: no fetch is in flight with 8 pages held, and
\* when it returns with 8 pages no path behind the last fetched one was fetched.
C5_PageCap ==
    /\ Len(results) <= 8
    /\ (crawlResult # Null /\ crawlResult.success) => Len(crawlResult.pages) <= 8
    /\ pc = "fetch_page" => Len(results) < 8
    /\ (pc = "crawled" /\ Len(results) = 8) =>
          \A j \in (pathIdx + 1)..Len(allPaths) : pageUrl(allPaths[j]) \notin PageFetches

C5_Witness ==
    /\ pc = "crawled"
    /\ Len(crawlResult.pages) = 8
    /\ \E j \in (pathIdx + 1)..Len(allPaths) :
          /\ ~shouldSkipPath(allPaths[j])
          /\ pageUrl(allPaths[j]) \notin crawled
          /\ pageUrl(allPaths[j]) \notin Range(fetchLog)

\* the URLs of the page fetches 3..k of the log that succeeded, in order
RECURSIVE SucceededUrls(_)
SucceededUrls(k) ==
    IF k < 3 THEN <<>>
    ELSE IF outcomes[k].success THEN Append(SucceededUrls(k - 1), fetchLog[k])
    ELSE SucceededUrls(k - 1)

\* C6: crawlSite returns success = true exactly when the homepage fetch
\* succeeded, whatever the manifest fetch and the page fetches came to; its
\* pages are then the homepage followed by exactly the pages whose fetch
\* succeeded, in the order of the attempts, and llmsTxt is null when the
\* manifest fetch failed.
C6_CrawlDegradesGracefully ==
    /\ crawlResult # Null => (crawlResult.success <=> outcomes[1].success)
    /\ pc = "crawled" =>
          /\ crawlResult.success
          /\ [i \in 1..Len(crawlResult.pages) |-> crawlResult.pages[i].url]
                = <<HomepageUrl>> \o SucceededUrls(Len(outcomes))
          /\ crawlResult.pages[1].type = "homepage"
          /\ ~outcomes[2].success => crawlResult.llmsTxt = Null

C6_Witness ==
    /\ pc = "crawled"
    /\ ~outcomes[2].success
    /\ \E i, j \in 3..Len(outcomes) : i < j /\ ~outcomes[i].success /\ outcomes[j].success
    /\ Len(crawlResult.pages) >= 2

\* ------------------------------------------------------------------------
\* Specification SpecScore: calculateScores applied to bounded inputs
\* ------------------------------------------------------------------------
AnyBlocker(pillar, severity) ==
    [code |-> "ANY", title |-> "orig", pillar |-> pillar, severity |-> severity,
     description |-> "orig", snippet |-> "orig", fixStrategy |-> "orig"]

InitScore ==
    /\ call = NoCall
    /\ IdleClient
    /\ IdleStore
    /\ sIn = <<>>
    /\ sMod \in ModifierValues
    /\ sOut = calculateScores(sIn, sMod)
    /\ sPrev = NoCall
    /\ url = "ok"
    /\ pc = "start"
    /\ events = <<>>
    /\ closed = FALSE
    /\ fetchLog = <<>>
    /\ outcomes = <<>>
    /\ homepageHtml = Null
    /\ results = <<>>
    /\ crawled = {}
    /\ llmsTxt = Null
    /\ allPaths = <<>>
    /\ pathIdx = 0
    /\ crawlResult = Null
    /\ site = Null
    /\ understanding = Null
    /\ llmsTxtAnalysis = Null
    /\ rawBlockers = <<>>
    /\ blockers = <<>>
    /\ result = Null

\* the caller scores the list again with one more blocker
ScoreWithOneMore ==
    /\ Len(sIn) < MaxBlockers
    /\ \E p \in PillarNames, s \in SeverityPool :
          /\ sIn' = Append(sIn, AnyBlocker(p, s))
          /\ sOut' = calculateScores(sIn', sMod)
          /\ sPrev' = [called |-> TRUE, blockers |-> sIn, modifier |-> sMod,
                       scores |-> sOut, added |-> AnyBlocker(p, s)]
    /\ UNCHANGED <<sMod, runVars, pureVars, clientVars, storeVars>>

NextScore == ScoreWithOneMore

SpecScore == InitScore /\ [][NextScore]_vars

\* ------------------------------------------------------------------------
\* Properties of calculateScores (checked under SpecScore)
\* ------------------------------------------------------------------------
\* the severities of the blockers of one pillar, and how many there are
SeveritySum(list, pillar) == totalSeverity(pillarBlockers(list, pillar))

Count(list, pillar) == Len(pillarBlockers(list, pillar))

\* r is x rounded to the nearest integer, halves up, for x = num/den, den > 0
IsRounded(r, num, den) ==
    /\ 2 * r * den - den <= 2 * num
    /\ 2 * num < 2 * r * den + den

\* C7 as stated: adding one more blocker of any severity in 1..100 to a pillar
\* never increases that pillar's score, whatever the pillar already holds.
C7_AddingNeverIncreases ==
    (sPrev.called /\ sPrev.added.severity \in 1..100)
      => sOut.pillars[sPrev.added.pillar] <= sPrev.scores.pillars[sPrev.added.pillar]

\* C7 amended: adding one more blocker of severity in 1..100 to a pillar never
\* increases that pillar's score when the pillar was empty or the added
\* severity is at least the mean severity of the blockers the pillar held;
\* the scores of the other pillars do not change.
C7_AddingAtOrAboveMeanNeverIncreases ==
    sPrev.called =>
      LET p == sPrev.added.pillar
          n == Count(sPrev.blockers, p)
          S == SeveritySum(sPrev.blockers, p)
      IN  /\ (sPrev.added.severity \in 1..100 /\ sPrev.added.severity * n >= S)
                => sOut.pillars[p] <= sPrev.scores.pillars[p]
          /\ \A q \in PillarNames \ {p} : sOut.pillars[q] = sPrev.scores.pillars[q]

\* a blocker at least as severe as the mean joined a pillar that already held
\* blockers, and the score went strictly down
C7_Witness ==
    /\ sPrev.called
    /\ Count(sPrev.blockers, sPrev.added.pillar) >= 1
    /\ sPrev.added.severity \in 1..100
    /\ sPrev.added.severity * Count(sPrev.blockers, sPrev.added.pillar)
         >= SeveritySum(sPrev.blockers, sPrev.added.pillar)
    /\ sOut.pillars[sPrev.added.pillar] < sPrev.scores.pillars[sPrev.added.pillar]

\* C8: for severities in 0..100 and a modifier in {-5, 0, 3, 4, 5}, every
\* pillar score and the total are integers in 0..100.
C8_ScoresInRange ==
    /\ sOut.total \in 0..100
    /\ \A p \in PillarNames : sOut.pillars[p] \in 0..100

\* a call whose penalty reaches the cap and whose total is pushed up by the
\* modifier, or pulled down by it
C8_Witness ==
    /\ sPrev.called
    /\ \E p \in PillarNames : sOut.pillars[p] = 0
    /\ sMod \in {-5, 5}
    /\ Len(sIn) = MaxBlockers

C10_TotalFormula ==
    LET ps == sOut.pillars
        raw == 25 * ps["clarity"] + 35 * ps["specificity"] + 25 * ps["proof"]
               + 15 * ps["audience"] + 100 * sMod
        clamped == IF raw < 0 THEN 0 ELSE IF raw > 10000 THEN 10000 ELSE raw
    IN  /\ IsRounded(sOut.total, clamped, 100)
        /\ (sIn = <<>> /\ sMod = 0) => sOut.total = 100
        /\ sMod > 0 => sOut.total <= 100

\* a scored list whose weighted sum plus a positive modifier passes 100
C10_Witness ==
    /\ sPrev.called
    /\ sMod = 5
    /\ 25 * sOut.pillars["clarity"] + 35 * sOut.pillars["specificity"]
         + 25 * sOut.pillars["proof"] + 15 * sOut.pillars["audience"] + 500 > 10000
    /\ sOut.total = 100

\* ------------------------------------------------------------------------
\* Specification SpecPure: the pipeline's pure functions applied to bounded
\* inputs, one call at a time
\* ------------------------------------------------------------------------
IdleRun ==
    /\ url = "ok"
    /\ pc = "start"
    /\ events = <<>>
    /\ closed = FALSE
    /\ fetchLog = <<>>
    /\ outcomes = <<>>
    /\ homepageHtml = Null
    /\ results = <<>>
    /\ crawled = {}
    /\ llmsTxt = Null
    /\ allPaths = <<>>
    /\ pathIdx = 0
    /\ crawlResult = Null
    /\ site = Null
    /\ understanding = Null
    /\ llmsTxtAnalysis = Null
    /\ rawBlockers = <<>>
    /\ blockers = <<>>
    /\ result = Null

InitPure ==
    /\ IdleRun
    /\ sIn = <<>>
    /\ sMod = 0
    /\ sOut = calculateScores(sIn, sMod)
    /\ sPrev = NoCall
    /\ call = NoCall
    /\ IdleClient
    /\ IdleStore

\* call keeps one call: each behaviour of SpecPure makes a single call
Returned(fn, args, value) ==
    [called |-> TRUE, fn |-> fn, args |-> args, threw |-> FALSE, result |-> value]

Threw(fn, args) ==
    [called |-> TRUE, fn |-> fn, args |-> args, threw |-> TRUE, result |-> Null]

\* the llmsTxt argument: null, the empty string, or a text
ManifestPool ==
    { Null, [contains |-> {}, length |-> 0, hasHash |-> FALSE, fluff |-> FALSE] }
    \cup
    { [contains |-> c, length |-> n, hasHash |-> h, fluff |-> f] :
        c \in SUBSET {"acme", "crm"}, n \in {1999, 2000, 5001},
        h \in BOOLEAN, f \in BOOLEAN }

\* the homepage title, lower-cased and split on spaces
TitlePool == { <<>>, <<"acme", "crm">> }

\* understanding.category
CategoryPool ==
    { Str("CRM software", <<"crm", "software">>), Str("Unknown", <<"unknown">>),
      Absent, NonString }

CallAnalyzeLlmsTxt ==
    /\ ~call.called
    /\ \E txt \in ManifestPool, title \in TitlePool, category \in CategoryPool :
          LET sd   == [title |-> title]
              und  == [category |-> category]
              args == [llmsTxt |-> txt, siteData |-> sd, understanding |-> und]
          IN  call' = IF analyzeLlmsTxtThrows(txt, und)
                      THEN Threw("analyzeLlmsTxt", args)
                      ELSE Returned("analyzeLlmsTxt", args, analyzeLlmsTxt(txt, sd, und))
    /\ UNCHANGED <<runVars, scoreVars, clientVars, storeVars>>

\* the schema data of one page extraction: how many types it lists and its flags
PageSchemas ==
    [types : {0, 1}, hasOrganization : BOOLEAN, hasReview : BOOLEAN, hasFAQ : BOOLEAN]

MaxPagesPerCall == 2

ExtractionLists(pool) == UNION { [1..k -> pool] : k \in 1..MaxPagesPerCall }

\* the loop over extractions at the head of checkSchemaMarkup; schemaTypes is
\* positive exactly when some page lists a type
schemaSignals(extractions, nProofPoints, nFAQs) ==
    [schemaTypes     |-> IF \E i \in 1..Len(extractions) : extractions[i].types > 0
                         THEN 1 ELSE 0,
     hasOrganization |-> \E i \in 1..Len(extractions) : extractions[i].hasOrganization,
     hasReview       |-> \E i \in 1..Len(extractions) : extractions[i].hasReview,
     hasFAQ          |-> \E i \in 1..Len(extractions) : extractions[i].hasFAQ,
     nProofPoints    |-> nProofPoints,
     nFAQs           |-> nFAQs]

CallCheckSchemaMarkup ==
    /\ ~call.called
    /\ \E extractions \in ExtractionLists(PageSchemas),
          nProofPoints \in {0, 2}, nFAQs \in {0, 3} :
          LET args == [extractions |-> extractions, nProofPoints |-> nProofPoints,
                       nFAQs |-> nFAQs]
          IN  call' = Returned("checkSchemaMarkup", args,
                               checkSchemaMarkup(schemaSignals(extractions, nProofPoints, nFAQs)))
    /\ UNCHANGED <<runVars, scoreVars, clientVars, storeVars>>

\* the blockers argument of enrichBlockersWithGPT: up to two findings
EnrichmentInputs ==
    LET pool == { Blocker("CLARITY_NO_DEFINITION", "clarity", 92),
                  Blocker("PROOF_NO_CASE_STUDIES", "proof", 84) }
    IN  UNION { [1..k -> pool] : k \in 0..2 }

CallEnrichBlockersWithGPT ==
    /\ ~call.called
    /\ \E list \in EnrichmentInputs :
          \E resp \in EnrichmentResponses(list) :
             call' = Returned("enrichBlockersWithGPT",
                              [blockers |-> list, response |-> resp],
                              enrichBlockersWithGPT(list, resp))
    /\ UNCHANGED <<runVars, scoreVars, clientVars, storeVars>>

\* the i-th text of a generated page: of the given length, carrying perText
\* matches for every matcher, the same ones in every text when repeated
GeneratedText(i, length, perText, repeated) ==
    LET ids == [k \in 1..perText |-> IF repeated THEN k ELSE 10 * i + k]
    IN  Text(length, ids, ids, ids, ids)

\* the pages of the model: nParagraphs p elements of one length, and either
\* no heading or an h1 that repeats the first paragraph's matches followed by
\* twelve more headings
GeneratedPage(nParagraphs, length, perText, repeated, withHeadings) ==
    [headline    |-> IF withHeadings THEN GeneratedText(1, 40, perText, repeated)
                     ELSE EmptyText,
     subheadline |-> IF withHeadings THEN GeneratedText(2, 20, perText, repeated)
                     ELSE EmptyText,
     headings    |-> IF withHeadings
                     THEN <<GeneratedText(1, 40, perText, repeated)>>
                          \o [i \in 1..12 |-> GeneratedText(100 + i, 40, perText, repeated)]
                     ELSE <<>>,
     paragraphs  |-> [i \in 1..nParagraphs |-> GeneratedText(i, length, perText, repeated)]]

PagePool ==
    { GeneratedPage(n, len, k, rep, h) :
        n \in {0, 1, 6, 16, 30, 31}, len \in {30, 31, 1999, 2000}, k \in {0, 1, 2},
        rep \in BOOLEAN, h \in BOOLEAN }

CallExtractPage ==
    /\ ~call.called
    /\ \E page \in PagePool :
          call' = Returned("extractPage", [page |-> page], extractPage(page))
    /\ UNCHANGED <<runVars, scoreVars, clientVars, storeVars>>

\* page extractions by the fields combineSiteExtractions reads, statements
\* kept as numbers standing for strings
ExtractionPool ==
    { [pageType |-> t, definitionStatements |-> d, audienceStatements |-> a,
       claims |-> c, proofPoints |-> c, faqs |-> a] :
        t \in {"homepage", "other"},
        d \in { <<>>, <<1>>, <<1, 2>>, <<2, 1>>, <<1, 1>> },
        a \in { <<>>, <<1>> },
        c \in { <<2>>, <<3, 2>> } }

CallCombineSiteExtractions ==
    /\ ~call.called
    /\ \E extractions \in ExtractionLists(ExtractionPool) :
          call' = Returned("combineSiteExtractions", [extractions |-> extractions],
                           combineSiteExtractions(extractions))
    /\ UNCHANGED <<runVars, scoreVars, clientVars, storeVars>>

RecordPool ==
    {NoRecord} \cup { UserRecord(p, n) : p \in BOOLEAN, n \in {0, 1, 2} }

CallCanUserScan ==
    /\ ~call.called
    /\ \E configured \in BOOLEAN, record \in RecordPool, query \in QueryOutcomes :
          LET args == [configured |-> configured, record |-> record, query |-> query]
          IN  call' = IF canUserScanThrows(configured, query)
                      THEN Threw("canUserScan", args)
                      ELSE Returned("canUserScan", args,
                                    canUserScan(configured, record, query))
    /\ UNCHANGED <<runVars, scoreVars, clientVars, storeVars>>

CallCheckUserCanScan ==
    /\ ~call.called
    /\ \E configured \in BOOLEAN, record \in RecordPool, query \in QueryOutcomes :
          call' = Returned("checkUserCanScan",
                           [configured |-> configured, record |-> record, query |-> query],
                           checkUserCanScan(configured, record, query))
    /\ UNCHANGED <<runVars, scoreVars, clientVars, storeVars>>

\* the type lists of a document: up to one type at each place
TypeLists == { <<>> } \cup { <<t>> : t \in SchemaTypePool }

CallExtractSchema ==
    /\ ~call.called
    /\ \E top \in TypeLists, graph \in TypeLists :
          call' = Returned("extractSchema", [top |-> top, graph |-> graph],
                           extractSchema(top, graph))
    /\ UNCHANGED <<runVars, scoreVars, clientVars, storeVars>>

\* the texts handed to a matcher: 0, 1, 2, 11 or 16 matches, all found by the
\* first pattern or with the first or the second of them found by the second
MatcherTexts ==
    { LET ids == [k \in 1..n |-> k]
      IN  TextWith(40, ids, ids, ids, ids, second) :
        n \in {0, 1, 2, 11, 16}, second \in {{}, {1}, {2}} }

MatcherInputs == UNION { [1..k -> MatcherTexts] : k \in 0..2 }

CallFindDefinitionStatements ==
    /\ ~call.called
    /\ \E texts \in MatcherInputs :
          call' = Returned("findDefinitionStatements", [texts |-> texts],
                           findDefinitionStatements(texts))
    /\ UNCHANGED <<runVars, scoreVars, clientVars, storeVars>>

CallFindClaims ==
    /\ ~call.called
    /\ \E texts \in MatcherInputs :
          call' = Returned("findClaims", [texts |-> texts], findClaims(texts))
    /\ UNCHANGED <<runVars, scoreVars, clientVars, storeVars>>

NextPure ==
    \/ CallFindDefinitionStatements
    \/ CallFindClaims
    \/ CallExtractSchema
    \/ CallCanUserScan
    \/ CallCheckUserCanScan
    \/ CallAnalyzeLlmsTxt
    \/ CallExtractPage
    \/ CallCombineSiteExtractions
    \/ CallCheckSchemaMarkup
    \/ CallEnrichBlockersWithGPT

SpecPure == InitPure /\ [][NextPure]_vars

ReturnedFrom(fn) == call.called /\ call.fn = fn /\ ~call.threw

\* ------------------------------------------------------------------------
\* Properties of analyzeLlmsTxt (checked under SpecPure)
\* ------------------------------------------------------------------------
\* C11: every result of analyzeLlmsTxt has present = false exactly when
\* aligned = null, and then modifier = 0; aligned = true implies a modifier in
\* 3..5; aligned = false implies modifier = -5; no other modifier is produced.
C11_ManifestResultShape ==
    ReturnedFrom("analyzeLlmsTxt") =>
      LET r == call.result
      IN  /\ (r.present = FALSE) <=> (r.aligned = "null")
          /\ r.present = FALSE => r.modifier = 0
          /\ r.aligned = "true" => r.modifier \in 3..5
          /\ r.aligned = "false" => r.modifier = -5
          /\ r.modifier \in {0, -5} \cup 3..5

\* a present manifest judged misaligned
C11_Witness ==
    /\ ReturnedFrom("analyzeLlmsTxt")
    /\ call.result.present
    /\ call.result.aligned = "false"
    /\ call.result.modifier = -5

\* the number of the four checks a present manifest passes, read off the
\* arguments of the call
PassedChecks ==
    LET txt      == call.args.llmsTxt
        title    == call.args.siteData.title
        category == call.args.understanding.category
    IN  (IF title # <<>> /\ title[1] \in txt.contains THEN 1 ELSE 0)
        + (IF category.kind = "string" /\ category.words[1] \in txt.contains THEN 1 ELSE 0)
        + (IF txt.length < 2000 /\ txt.hasHash THEN 1 ELSE 0)
        + (IF ~txt.fluff THEN 1 ELSE 0)

\* C12: for a present manifest exactly four checks count (title's first word
\* contained, category's first word contained, shorter than 2000 characters
\* with a '#', no fluff word); aligned is true exactly when at least 2 pass;
\* modifier is round(3 + 2 * passed / 4) when aligned and -5 otherwise; with
\* all four passing it is 5.
C12_ManifestAlignment ==
    (ReturnedFrom("analyzeLlmsTxt") /\ call.result.present) =>
      LET r == call.result
      IN  /\ (r.aligned = "true") <=> (PassedChecks >= 2)
          /\ r.aligned \in {"true", "false"}
          /\ r.aligned = "true" => IsRounded(r.modifier, 3 * 4 + 2 * PassedChecks, 4)
          /\ r.aligned = "false" => r.modifier = -5
          /\ PassedChecks = 4 => r.modifier = 5

\* a manifest of exactly 2000 characters with a '#' that passes the other
\* three checks
C12_Witness ==
    /\ ReturnedFrom("analyzeLlmsTxt")
    /\ call.result.present
    /\ call.args.llmsTxt.length = 2000
    /\ call.args.llmsTxt.hasHash
    /\ PassedChecks = 3
    /\ call.result.modifier = 5

\* ------------------------------------------------------------------------
\* Properties of the delivered lists (checked under Spec)
\* ------------------------------------------------------------------------
\* the position of the check that writes a blocker code, in the order
\* runBlockerChecks calls the checks
CheckOrder(code) ==
    CASE code \in {"CLARITY_VAGUE_HERO", "CLARITY_NO_DEFINITION"} -> 1
      [] code \in {"CLARITY_NO_PROBLEM_FRAMING", "CLARITY_NO_QUERY_MATCHING"} -> 2
      [] code \in {"SPECIFICITY_NO_EXAMPLES", "SPECIFICITY_NO_OUTCOMES",
                   "SPECIFICITY_PROPRIETARY_JARGON"} -> 3
      [] code \in {"PROOF_NO_CASE_STUDIES", "PROOF_NO_TESTIMONIALS",
                   "PROOF_NO_THIRD_PARTY"} -> 4
      [] code \in {"AUDIENCE_NOT_SPECIFIC", "AUDIENCE_NO_SIZE"} -> 5
      [] code \in {"SPECIFICITY_NO_SCHEMA", "SPECIFICITY_NO_ORG_SCHEMA",
                   "PROOF_NO_REVIEW_SCHEMA", "SPECIFICITY_NO_FAQ_SCHEMA"} -> 6
      [] code \in {"SPECIFICITY_LOW_FACT_DENSITY", "SPECIFICITY_VAGUE_COMPARATIVES"} -> 7
      [] code \in {"SPECIFICITY_NO_PRODUCT_SCHEMA", "SPECIFICITY_MISSING_ATTRIBUTES",
                   "SPECIFICITY_NO_FRESHNESS"} -> 8
      [] code \in {"CLARITY_NO_LLMS_TXT", "CLARITY_LLMS_TXT_MISALIGNED"} -> 9

\* C13: the blockers of the complete event are non-increasing in severity,
\* blockers of equal severity standing in the order their checks ran; the
\* strengths are non-increasing in impact.
C13_DeliveredListsSorted ==
    result # Null =>
      /\ \A i, j \in 1..Len(result.blockers) :
            i < j =>
              /\ result.blockers[i].severity >= result.blockers[j].severity
              /\ result.blockers[i].severity = result.blockers[j].severity
                    => CheckOrder(result.blockers[i].code) <= CheckOrder(result.blockers[j].code)
      /\ \A i, j \in 1..Len(result.strengths) :
            i < j => result.strengths[i].impact >= result.strengths[j].impact

\* a delivered list longer than five with two equally severe blockers of
\* different checks, after an enrichment that rewrote the top five
C13_Witness ==
    /\ result # Null
    /\ Len(result.blockers) > TopCount
    /\ result.blockers[1].description = "gpt"
    /\ \E i, j \in 1..Len(result.blockers) :
          /\ i < j
          /\ result.blockers[i].severity = result.blockers[j].severity
          /\ CheckOrder(result.blockers[i].code) < CheckOrder(result.blockers[j].code)
    /\ Len(result.strengths) >= 2

\* ------------------------------------------------------------------------
\* Properties of checkSchemaMarkup (checked under SpecPure)
\* ------------------------------------------------------------------------
Codes(list) == [i \in 1..Len(list) |-> list[i].code]

\* C14: when no page extraction has a structured-data type checkSchemaMarkup
\* returns exactly one finding, SPECIFICITY_NO_SCHEMA, whatever proof points
\* and FAQ content the site has; when some page has a type,
\* SPECIFICITY_NO_SCHEMA is not returned.
C14_SchemaShortCircuit ==
    ReturnedFrom("checkSchemaMarkup") =>
      IF \A i \in 1..Len(call.args.extractions) : call.args.extractions[i].types = 0
      THEN Codes(call.result) = <<"SPECIFICITY_NO_SCHEMA">>
      ELSE "SPECIFICITY_NO_SCHEMA" \notin Range(Codes(call.result))

\* no page has a type, the site has proof points and FAQ content and no
\* organization, review or FAQ flag
C14_Witness ==
    /\ ReturnedFrom("checkSchemaMarkup")
    /\ \A i \in 1..Len(call.args.extractions) :
          /\ call.args.extractions[i].types = 0
          /\ ~call.args.extractions[i].hasOrganization
          /\ ~call.args.extractions[i].hasReview
          /\ ~call.args.extractions[i].hasFAQ
    /\ Len(call.args.extractions) = 2
    /\ call.args.nProofPoints > 0
    /\ call.args.nFAQs > 0
    /\ Len(call.result) = 1

\* ------------------------------------------------------------------------
\* Properties of the enrichment (C15 under SpecPure, C16 under Spec)
\* ------------------------------------------------------------------------
\* the request threw, came back non-2xx, without content, with text that is
\* not JSON, or with JSON that holds no enrichments array
EnrichmentFailed(resp) ==
    \/ resp.rejected
    \/ ~resp.ok
    \/ resp.content = "none"
    \/ resp.content = "malformed"
    \/ ~resp.hasArray

\* C15: when the enrichment request fails in any of those ways
\* enrichBlockersWithGPT returns the input blockers with every field
\* unchanged and raises no error.
C15_EnrichmentFailureKeepsBlockers ==
    (call.called /\ call.fn = "enrichBlockersWithGPT"
       /\ EnrichmentFailed(call.args.response)) =>
      /\ ~call.threw
      /\ call.result = call.args.blockers

\* a call with two blockers whose request was rejected
C15_Witness ==
    /\ ReturnedFrom("enrichBlockersWithGPT")
    /\ Len(call.args.blockers) = 2
    /\ call.args.response.rejected
    /\ call.result = call.args.blockers

\* C16: the final blockers list has the length and the sequence of (code,
\* title, pillar, severity) of the output of runBlockerChecks; a blocker
\* differs from that output (in description, snippet or fixStrategy) only if
\* it is among the first five and the response names its code; an entry with
\* an unknown code adds no blocker.
C16_EnrichmentFrame ==
    result # Null =>
      /\ Len(result.blockers) = Len(rawBlockers)
      /\ \A i \in 1..Len(rawBlockers) :
            /\ result.blockers[i].code = rawBlockers[i].code
            /\ result.blockers[i].title = rawBlockers[i].title
            /\ result.blockers[i].pillar = rawBlockers[i].pillar
            /\ result.blockers[i].severity = rawBlockers[i].severity
            /\ result.blockers[i] # rawBlockers[i] =>
                  /\ i <= 5
                  /\ Resolved(EnrichmentRequest)
                  /\ rawBlockers[i].code \in OutcomeOf(EnrichmentRequest).codes

\* a run with more than five blockers whose response named all of them and an
\* unknown code or not: the first is rewritten, the sixth is not
C16_Witness ==
    /\ result # Null
    /\ Len(rawBlockers) > 5
    /\ Resolved(EnrichmentRequest)
    /\ rawBlockers[6].code \in OutcomeOf(EnrichmentRequest).codes
    /\ result.blockers[1].description = "gpt"
    /\ result.blockers[6] = rawBlockers[6]

\* ------------------------------------------------------------------------
\* Pillar independence of calculateScores (checked under SpecScore)
\* ------------------------------------------------------------------------
\* the blockers of a list tagged with one pillar
OnlyPillar(list, pillar) ==
    [i \in 1..Cardinality({k \in 1..Len(list) : list[k].pillar = pillar}) |->
        list[CHOOSE k \in 1..Len(list) :
                /\ list[k].pillar = pillar
                /\ Cardinality({m \in 1..k : list[m].pillar = pillar}) = i]]

\* C17: a pillar's sub-score depends only on the blockers tagged with that
\* pillar: a blocker added to another pillar leaves it unchanged, and it equals
\* the sub-score of the list reduced to that pillar's blockers under any other
\* modifier.
C17_PillarIndependence ==
    /\ sPrev.called =>
          \A q \in PillarNames \ {sPrev.added.pillar} :
             sOut.pillars[q] = sPrev.scores.pillars[q]
    /\ \A p \in PillarNames, m \in ModifierValues :
          sOut.pillars[p] = calculateScores(OnlyPillar(sIn, p), m).pillars[p]

\* a clarity blocker joined a list whose specificity pillar already held a
\* blocker, under a non-zero modifier
C17_Witness ==
    /\ sPrev.called
    /\ sPrev.added.pillar = "clarity"
    /\ sPrev.added.severity > 0
    /\ sMod # 0
    /\ sPrev.scores.pillars["specificity"] \in 1..99
    /\ sOut.pillars["specificity"] = sPrev.scores.pillars["specificity"]
    /\ sOut.pillars["clarity"] < sPrev.scores.pillars["clarity"]

\* ------------------------------------------------------------------------
\* Properties of extractPage (checked under SpecPure)
\* ------------------------------------------------------------------------
\* C18: extractPage returns at most 30 paragraphs, at most 10 definition
\* statements, at most 10 audience statements, at most 15 claims and at most
\* 15 proof points.
C18_ExtractionCaps ==
    ReturnedFrom("extractPage") =>
      /\ Len(call.result.paragraphs) <= 30
      /\ Len(call.result.definitionStatements) <= 10
      /\ Len(call.result.audienceStatements) <= 10
      /\ Len(call.result.claims) <= 15
      /\ Len(call.result.proofPoints) <= 15

\* a page with more than 30 qualifying paragraphs whose texts hold more than
\* 15 different matches for every matcher
C18_Witness ==
    /\ ReturnedFrom("extractPage")
    /\ Len(call.args.page.paragraphs) > 30
    /\ \A i \in 1..Len(call.args.page.paragraphs) :
          /\ call.args.page.paragraphs[i].length > 30
          /\ call.args.page.paragraphs[i].length < 2000
          /\ Len(call.args.page.paragraphs[i].claims) >= 1
    /\ Cardinality({ call.args.page.paragraphs[i].claims[1] :
                       i \in 1..Len(call.args.page.paragraphs) }) > 15
    /\ Len(call.result.paragraphs) = 30
    /\ Len(call.result.definitionStatements) = 10
    /\ Len(call.result.proofPoints) = 15

\* ------------------------------------------------------------------------
\* Properties of combineSiteExtractions (checked under SpecPure)
\* ------------------------------------------------------------------------
NoDuplicates(seq) == \A i, j \in 1..Len(seq) : seq[i] = seq[j] => i = j

\* every string some page lists under a field
FoundOnSomePage(extractions, field) ==
    UNION { Range(extractions[i][field]) : i \in 1..Len(extractions) }

\* C19: after combineSiteExtractions each of allDefinitions,
\* allAudienceStatements, allClaims and allProofPoints holds no string twice,
\* strings that occur on several pages included, and holds every string found
\* on some page.
C19_CombinedListsDeduplicated ==
    ReturnedFrom("combineSiteExtractions") =>
      LET ex == call.args.extractions
          r  == call.result
      IN  /\ NoDuplicates(r.allDefinitions)
          /\ NoDuplicates(r.allAudienceStatements)
          /\ NoDuplicates(r.allClaims)
          /\ NoDuplicates(r.allProofPoints)
          /\ Range(r.allDefinitions) = FoundOnSomePage(ex, "definitionStatements")
          /\ Range(r.allAudienceStatements) = FoundOnSomePage(ex, "audienceStatements")
          /\ Range(r.allClaims) = FoundOnSomePage(ex, "claims")
          /\ Range(r.allProofPoints) = FoundOnSomePage(ex, "proofPoints")

\* two pages that share a definition, the second adding a new one
C19_Witness ==
    /\ ReturnedFrom("combineSiteExtractions")
    /\ Len(call.args.extractions) = 2
    /\ call.args.extractions[1].definitionStatements = <<1>>
    /\ call.args.extractions[2].definitionStatements = <<1, 2>>
    /\ call.result.allDefinitions = <<1, 2>>
    /\ call.result.allClaims = <<2, 3>>

\* ------------------------------------------------------------------------
\* Properties of canUserScan (checked under SpecPure)
\* ------------------------------------------------------------------------
\* C20 as stated: canUserScan allows a scan exactly when the store is not
\* configured, or the email has no user record, or the user is premium, or
\* the user's scan_count is 0; a non-premium user with scan_count of 1 or more
\* gets allowed = false with a reason.
C20_AllowedExactlyWhenEligible ==
    ReturnedFrom("canUserScan") =>
      LET a == call.args
      IN  /\ call.result.allowed <=>
                \/ ~a.configured
                \/ ~a.record.exists
                \/ a.record.is_premium
                \/ a.record.scan_count = 0
          /\ ~call.result.allowed => call.result.reason # ""

\* C20 amended: canUserScan allows a scan exactly when the store is not
\* configured, or the lookup gives no user (the email has no record, or the
\* query fails), or the user is premium, or the user's scan_count is 0; when
\* the lookup gives a non-premium user with scan_count of 1 or more it returns
\* allowed = false with a reason.
C20_AllowedUnlessLookedUpAndExhausted ==
    ReturnedFrom("canUserScan") =>
      LET a == call.args
      IN  /\ call.result.allowed <=>
                \/ ~a.configured
                \/ ~a.record.exists
                \/ a.query # "ok"
                \/ a.record.is_premium
                \/ a.record.scan_count = 0
          /\ ~call.result.allowed => call.result.reason # ""

\* a configured store, a successful lookup of a non-premium user with exactly
\* one scan: refused with a reason
C20_Witness ==
    /\ ReturnedFrom("canUserScan")
    /\ call.args.configured
    /\ call.args.query = "ok"
    /\ call.args.record = UserRecord(FALSE, 1)
    /\ ~call.result.allowed
    /\ call.result.reason # ""

\* ------------------------------------------------------------------------
\* Properties of the crawl's requests (checked under Spec)
\* ------------------------------------------------------------------------
\* C21: within one run no URL is fetched more than once: a page fetch that
\* failed is never attempted again, a page that succeeded is never fetched
\* again, the homepage is not fetched again through the priority path "/", and
\* a failed text-generation request is not sent again.
C21_NoUrlFetchedTwice ==
    \A i, j \in 1..Len(fetchLog) : i # j => fetchLog[i] # fetchLog[j]

\* the same-origin anchors of the homepage whose href holds neither a query
\* string nor a fragment
PlainAnchors ==
    { a \in Range(homepageHtml.anchors) :
        a.valid /\ a.origin = "self" /\ a.search = "" /\ a.hash = "" }

\* C22: crawlSite never fetches a candidate path that has a static-asset
\* extension, starts with an excluded prefix, is a tag/category/author listing
\* or holds a query string or a fragment; and a same-origin homepage link whose
\* href carries a query string or a fragment adds no page to the crawl: every
\* page fetched is a priority path or the path of a link without either.
C22_ExcludedPathsNeverFetched ==
    homepageHtml # Null =>
      \A k \in 3..Len(fetchLog) :
        \E i \in 1..Len(allPaths) :
          /\ pageUrl(allPaths[i]) = fetchLog[k]
          /\ ~shouldSkipPath(allPaths[i])
          /\ \/ allPaths[i] \in Range(priorityPaths)
             \/ \E a \in PlainAnchors : a.pathname = allPaths[i]

\* ------------------------------------------------------------------------
\* Specification SpecClient: one call of the page's startAnalysis, reading
\* the response stream of POST /api/analyze
\* ------------------------------------------------------------------------
\* The bytes of a line: the text of JSON.stringify(data) is kept as two
\* halves, so that the transport can end a chunk inside it, and the "\n".
Piece(data, half) == [nl |-> FALSE, data |-> data, half |-> half]

Newline == [nl |-> TRUE]

\* send: encoder.encode(JSON.stringify(data) + '\n')
send(data) == <<Piece(data, 1), Piece(data, 2), Newline>>

RECURSIVE sendAll(_)
sendAll(evs) == IF Len(evs) = 0 THEN <<>> ELSE send(Head(evs)) \o sendAll(Tail(evs))

\* the result object of a complete event
ResultPayload == [success |-> TRUE]

\* the event sequences a run of POST sends: an error after step 1 (malformed
\* url, homepage not loaded), an error after step 4, or all five steps and
\* complete
ServerStreams ==
    { <<StepEvent(1), ErrorEvent(m)>> : m \in {"Invalid URL", "HTTP 500", "aborted"} }
    \cup { <<StepEvent(1), StepEvent(2), StepEvent(3), StepEvent(4), ErrorEvent("TypeError")>> }
    \cup { <<StepEvent(1), StepEvent(2), StepEvent(3), StepEvent(4), StepEvent(5),
             CompleteEvent>> }

\* chunk.split('\n')
RECURSIVE split(_)
split(chunk) ==
    IF Len(chunk) = 0 THEN << <<>> >>
    ELSE LET rest == split(Tail(chunk))
         IN  IF Head(chunk).nl THEN << <<>> >> \o rest
             ELSE << <<Head(chunk)>> \o Head(rest) >> \o Tail(rest)

\* .filter(line => line.trim())
nonBlank(lines) == SelectSeq(lines, LAMBDA line : Len(line) > 0)

\* JSON.parse(line) returns for the whole text of one line and throws for
\* any other run of bytes
jsonParses(line) ==
    /\ Len(line) = 2
    /\ line[1].half = 1
    /\ line[2].half = 2
    /\ line[1].data = line[2].data

\* updateStep(stepId, status)
updateStep(st, stepId, status) ==
    [i \in 1..5 |-> IF i = stepId THEN status ELSE st[i]]

\* The body of the for loop for one line, on the state [steps, result, parsed].
\* The throw of the error branch is inside the try of the loop body, whose
\* catch is empty.
handleLine(state, line) ==
    IF ~jsonParses(line) THEN state
    ELSE LET data == line[1].data
             seen == [state EXCEPT !.parsed = Append(@, data)]
         IN  IF data.type = "step"
             THEN [seen EXCEPT !.steps =
                      updateStep(IF data.step > 1
                                 THEN updateStep(@, data.step - 1, "done") ELSE @,
                                 data.step, "active")]
             ELSE IF data.type = "complete"
             THEN [seen EXCEPT !.steps = [i \in 1..5 |-> "done"],
                               !.result = ResultPayload]
             ELSE seen

RECURSIVE handleLines(_, _)
handleLines(state, lines) ==
    IF Len(lines) = 0 THEN state
    ELSE handleLines(handleLine(state, Head(lines)), Tail(lines))

InitClient ==
    /\ IdleRun
    /\ sIn = <<>>
    /\ sMod = 0
    /\ sOut = calculateScores(sIn, sMod)
    /\ sPrev = NoCall
    /\ call = NoCall
    /\ IdleClient
    /\ IdleStore

\* startAnalysis up to its await of fetch
StartAnalysis ==
    /\ clientPc = "idle"
    /\ error' = Null
    /\ currentScreen' = "analyzing"
    /\ steps' = [i \in 1..5 |-> IF i = 1 THEN "active" ELSE "pending"]
    /\ clientPc' = "await_fetch"
    /\ UNCHANGED <<wire, emitted, parsed, analysisResult, localResult, timer>>
    /\ UNCHANGED <<runVars, scoreVars, pureVars, storeVars>>

\* the outer catch: setError(message); setTimeout(landing, 2000)
FetchRejects ==
    /\ clientPc = "await_fetch"
    /\ error' = [message |-> "Failed to fetch"]
    /\ timer' = "landing"
    /\ clientPc' = "returned"
    /\ UNCHANGED <<wire, emitted, parsed, currentScreen, steps, analysisResult, localResult>>
    /\ UNCHANGED <<runVars, scoreVars, pureVars, storeVars>>

\* fetch resolves with the streamed response of a run
FetchReturns ==
    /\ clientPc = "await_fetch"
    /\ \E evs \in ServerStreams :
          /\ emitted' = evs
          /\ wire' = sendAll(evs)
    /\ localResult' = Null
    /\ clientPc' = "reading"
    /\ UNCHANGED <<parsed, currentScreen, steps, error, analysisResult, timer>>
    /\ UNCHANGED <<runVars, scoreVars, pureVars, storeVars>>

\* reader.read() resolves with a chunk: any non-empty run of the bytes not
\* delivered yet; the for loop handles its lines
ReadReturnsChunk ==
    /\ clientPc = "reading"
    /\ \E k \in 1..Len(wire) :
          LET chunk == SubSeq(wire, 1, k)
              after == handleLines([steps |-> steps, result |-> localResult,
                                    parsed |-> parsed],
                                   nonBlank(split(chunk)))
          IN  /\ wire' = SubSeq(wire, k + 1, Len(wire))
              /\ steps' = after.steps
              /\ localResult' = after.result
              /\ parsed' = after.parsed
    /\ UNCHANGED <<clientPc, emitted, currentScreen, error, analysisResult, timer>>
    /\ UNCHANGED <<runVars, scoreVars, pureVars, storeVars>>

\* reader.read() resolves with done: if (result) { setAnalysisResult(result);
\* setTimeout(dashboard, 600) }
ReadReturnsDone ==
    /\ clientPc = "reading"
    /\ Len(wire) = 0
    /\ IF localResult # Null
       THEN /\ analysisResult' = localResult
            /\ timer' = "dashboard"
       ELSE UNCHANGED <<analysisResult, timer>>
    /\ clientPc' = "returned"
    /\ UNCHANGED <<wire, emitted, parsed, currentScreen, steps, error, localResult>>
    /\ UNCHANGED <<runVars, scoreVars, pureVars, storeVars>>

\* the pending setTimeout callback runs: setCurrentScreen(...)
TimerFires ==
    /\ timer # ""
    /\ currentScreen' = timer
    /\ timer' = ""
    /\ UNCHANGED <<clientPc, wire, emitted, parsed, steps, error, analysisResult, localResult>>
    /\ UNCHANGED <<runVars, scoreVars, pureVars, storeVars>>

NextClient ==
    \/ StartAnalysis
    \/ FetchRejects
    \/ FetchReturns
    \/ ReadReturnsChunk
    \/ ReadReturnsDone
    \/ TimerFires

SpecClient == InitClient /\ [][NextClient]_vars

\* ------------------------------------------------------------------------
\* Properties of startAnalysis (checked under SpecClient)
\* ------------------------------------------------------------------------
\* startAnalysis has returned and no timer is pending: nothing will change
ClientAtRest == clientPc = "returned" /\ timer = ""

\* C23: when startAnalysis reads an error event from the stream it records the
\* event's error message and then returns the screen to landing; and after the
\* stream has ended the client does not stay on the analyzing screen: once
\* startAnalysis has returned, an error event it read has its message in
\* `error` and the screen is landing or about to be, and the client is never
\* at rest on the analyzing screen.
C23_ErrorEventReturnsToLanding ==
    /\ clientPc = "returned" =>
          \A i \in 1..Len(parsed) :
              parsed[i].type = "error" =>
                  /\ error = [message |-> parsed[i].error]
                  /\ timer = "landing" \/ currentScreen = "landing"
    /\ ClientAtRest => currentScreen # "analyzing"

\* C29: if the server emits a complete event, startAnalysis stores that result
\* and then shows the dashboard, however the transport splits the response
\* bytes into chunks.
C29_CompleteEventReachesDashboard ==
    (clientPc = "returned" /\ Len(emitted) > 0
       /\ emitted[Len(emitted)].type = "complete") =>
          /\ analysisResult = ResultPayload
          /\ timer = "dashboard" \/ currentScreen = "dashboard"

\* ------------------------------------------------------------------------
\* Properties of extractSchema (checked under SpecPure)
\* ------------------------------------------------------------------------
FlagsOf(schemaData) == [f \in SchemaFlags |-> schemaData[f]]

\* C24: a structured-data type sets the same flags whether its entry is at the
\* top level of a JSON-LD block or nested in the block's @graph array: moving
\* the types of a document from one place to the other leaves the five flags
\* of extractSchema as they were.
C24_GraphScanSameAsTopLevel ==
    ReturnedFrom("extractSchema") =>
        FlagsOf(call.result) = FlagsOf(extractSchema(call.args.graph, call.args.top))

\* ------------------------------------------------------------------------
\* Properties of extractPage's paragraph filter (checked under SpecPure)
\* ------------------------------------------------------------------------
KeptParagraphs == Range(call.result.paragraphs)

\* C25 as stated: extractPage keeps a paragraph exactly when its trimmed
\* length is in [30, 2000): one of exactly 30 characters is kept, one of
\* exactly 2000 is dropped (on a page of at most 30 paragraphs, where the cap
\* drops none).
C25_ParagraphKeptFrom30 ==
    ReturnedFrom("extractPage") =>
      LET ps == call.args.page.paragraphs
      IN  /\ \A t \in KeptParagraphs : t.length >= 30 /\ t.length < 2000
          /\ Len(ps) <= 30 =>
                \A i \in 1..Len(ps) :
                    (ps[i].length >= 30 /\ ps[i].length < 2000) => ps[i] \in KeptParagraphs

\* C25 amended: extractPage keeps a paragraph exactly when its trimmed length
\* is greater than 30 and less than 2000: one of exactly 30 characters is
\* dropped, one of 31 is kept, one of 1999 is kept and one of 2000 is dropped
\* (on a page of at most 30 paragraphs, where the cap drops none).
C25_ParagraphKeptAbove30 ==
    ReturnedFrom("extractPage") =>
      LET ps == call.args.page.paragraphs
      IN  /\ \A t \in KeptParagraphs : t.length > 30 /\ t.length < 2000
          /\ Len(ps) <= 30 =>
                \A i \in 1..Len(ps) :
                    (ps[i].length > 30 /\ ps[i].length < 2000) => ps[i] \in KeptParagraphs

\* a page whose paragraphs have exactly 30 characters: none is kept
C25_Witness ==
    /\ ReturnedFrom("extractPage")
    /\ Len(call.args.page.paragraphs) >= 1
    /\ \A i \in 1..Len(call.args.page.paragraphs) : call.args.page.paragraphs[i].length = 30
    /\ call.result.paragraphs = <<>>

\* ------------------------------------------------------------------------
\* Properties of the semantic matchers (checked under SpecPure)
\* ------------------------------------------------------------------------
\* the matches of a family in the order in which they occur in the texts
RECURSIVE InSourceOrder(_, _)
InSourceOrder(texts, kind) ==
    IF Len(texts) = 0 THEN <<>>
    ELSE texts[1][kind] \o InSourceOrder(Tail(texts), kind)

\* C26: a semantic matcher returns its distinct matches in the order in which
\* they occur in the source texts, also when a single text holds matches of
\* both patterns of the family, and the cap keeps the earliest ones.
C26_MatchesInSourceOrder ==
    /\ ReturnedFrom("findDefinitionStatements") =>
          call.result = Take(Dedupe(InSourceOrder(call.args.texts, "definitions")), 10)
    /\ ReturnedFrom("findClaims") =>
          call.result = Take(Dedupe(InSourceOrder(call.args.texts, "claims")), 15)

\* ------------------------------------------------------------------------
\* Properties of the findings of a completed run (checked under Spec)
\* ------------------------------------------------------------------------
\* how many entries of a list of findings carry the code
Reported(list, code) == Cardinality({ i \in 1..Len(list) : list[i].code = code })

\* C27: in every completed run exactly one of three findings is reported:
\* blocker CLARITY_NO_LLMS_TXT (manifest absent, modifier 0), blocker
\* CLARITY_LLMS_TXT_MISALIGNED (manifest present and not aligned, modifier -5)
\* or strength STRENGTH_LLMS_TXT (manifest present and aligned, modifier 3..5).
C27_OneManifestFinding ==
    result # Null =>
      LET absent     == Reported(result.blockers, "CLARITY_NO_LLMS_TXT")
          misaligned == Reported(result.blockers, "CLARITY_LLMS_TXT_MISALIGNED")
          aligned    == Reported(result.strengths, "STRENGTH_LLMS_TXT")
      IN  /\ absent + misaligned + aligned = 1
          /\ absent = 1 => ~result.llmsTxt.present /\ result.llmsTxt.modifier = 0
          /\ misaligned = 1 =>
                /\ result.llmsTxt.present
                /\ result.llmsTxt.aligned = "false"
                /\ result.llmsTxt.modifier = -5
          /\ aligned = 1 =>
                /\ result.llmsTxt.present
                /\ result.llmsTxt.aligned = "true"
                /\ result.llmsTxt.modifier \in 3..5

\* a completed run on a site with an aligned manifest: the strength and
\* neither blocker
C27_Witness ==
    /\ result # Null
    /\ result.llmsTxt.present
    /\ result.llmsTxt.aligned = "true"
    /\ Reported(result.strengths, "STRENGTH_LLMS_TXT") = 1
    /\ Reported(result.blockers, "CLARITY_LLMS_TXT_MISALIGNED") = 0
    /\ Len(result.blockers) > TopCount

\* the blocker for a missing signal and the strength for the same signal
SignalPairs ==
    { <<"CLARITY_NO_DEFINITION", "STRENGTH_CLEAR_DEFINITION">>,
      <<"AUDIENCE_NOT_SPECIFIC", "STRENGTH_AUDIENCE_CLARITY">>,
      <<"SPECIFICITY_NO_SCHEMA", "STRENGTH_HAS_SCHEMA">>,
      <<"SPECIFICITY_NO_OUTCOMES", "STRENGTH_QUANTIFIED_OUTCOMES">>,
      <<"PROOF_NO_CASE_STUDIES", "STRENGTH_CASE_STUDIES">>,
      <<"PROOF_NO_TESTIMONIALS", "STRENGTH_TESTIMONIALS">>,
      <<"PROOF_NO_THIRD_PARTY", "STRENGTH_THIRD_PARTY">> }

\* C28: no run reports both the blocker for a missing signal and the strength
\* for the same signal being present.
C28_NoContradictoryFindings ==
    result # Null =>
      \A pair \in SignalPairs :
          ~ /\ Reported(result.blockers, pair[1]) > 0
            /\ Reported(result.strengths, pair[2]) > 0

\* ------------------------------------------------------------------------
\* Specification SpecStore: saveAnalysisToDb and canUserScan for one email
\* ------------------------------------------------------------------------
InitStore ==
    /\ IdleRun
    /\ sIn = <<>>
    /\ sMod = 0
    /\ sOut = calculateScores(sIn, sMod)
    /\ sPrev = NoCall
    /\ call = NoCall
    /\ IdleClient
    /\ supabase \in BOOLEAN
    /\ users \in {NoRecord, UserRecord(FALSE, 0), UserRecord(TRUE, 0)}
    /\ lastSave = NoCall
    /\ lastScan = NoCall

ScanCount(row) == IF row.exists THEN row.scan_count ELSE 0

\* saveAnalysisToDb(email, url, results) is called and returns
SaveAnalysisToDb ==
    /\ ScanCount(users) < MaxScans
    /\ \E find \in QueryOutcomes, create \in QueryOutcomes,
          save \in QueryOutcomes, rpc \in QueryOutcomes :
          LET out == saveAnalysisToDb(supabase, users, find, create, save, rpc)
          IN  /\ users' = out.row
              /\ lastSave' = [called |-> TRUE, ret |-> out.ret, before |-> users,
                              after |-> out.row]
    /\ lastScan' = NoCall
    /\ UNCHANGED supabase
    /\ UNCHANGED <<runVars, scoreVars, pureVars, clientVars>>

\* canUserScan(email) is called after saveAnalysisToDb has returned
LaterCanUserScan ==
    /\ lastSave.called
    /\ \E query \in QueryOutcomes :
          lastScan' = IF canUserScanThrows(supabase, query)
                      THEN [called |-> TRUE, threw |-> TRUE, result |-> Null]
                      ELSE [called |-> TRUE, threw |-> FALSE,
                            result |-> canUserScan(supabase, users, query)]
    /\ UNCHANGED <<supabase, users, lastSave>>
    /\ UNCHANGED <<runVars, scoreVars, pureVars, clientVars>>

NextStore ==
    \/ SaveAnalysisToDb
    \/ LaterCanUserScan

SpecStore == InitStore /\ [][NextStore]_vars

\* ------------------------------------------------------------------------
\* Properties of saveAnalysisToDb (checked under SpecStore)
\* ------------------------------------------------------------------------
\* C30: after saveAnalysisToDb returns success with an analysisId for a
\* non-premium user's email, that user's scan_count has grown by one, and every
\* later canUserScan for the email returns allowed = false; when
\* saveAnalysisToDb fails to create the user or to save the analysis it
\* returns success = false and scan_count is unchanged.
C30_SavedScanIsCounted ==
    lastSave.called =>
      /\ (lastSave.ret.success /\ lastSave.ret.analysisId /\ ~lastSave.after.is_premium) =>
            /\ ScanCount(lastSave.after) = ScanCount(lastSave.before) + 1
            /\ (lastScan.called /\ ~lastScan.threw) => ~lastScan.result.allowed
      /\ lastSave.ret.error \in {"Failed to create user", "Failed to save analysis"} =>
            /\ ~lastSave.ret.success
            /\ ScanCount(lastSave.after) = ScanCount(lastSave.before)

====
